---- MODULE Spec2Model ----
(***************************************************************************)
(* A model of the mustache template engine: the parser (parse,             *)
(* parseSection, readString, the standalone-line handling) and the         *)
(* renderer (lookup, isEmpty, renderSection, renderElement, Render), with  *)
(* the files that partial tags name; and of the lexer of package parse,   *)
(* a goroutine that sends the items it scans to the caller of nextItem.    *)
(*                                                                         *)
(* Strings are sequences of one-character strings.  Go indices are         *)
(* 0-based; At and Slice translate them.                                   *)
(***************************************************************************)
EXTENDS Integers, Sequences, FiniteSets, TLC

VARIABLES tmpl,      \* the Template being parsed / the parsed Template
          calls,     \* the context lists of the Render calls still to come
          results,   \* the outcome of every Render call made so far
          AllowMissingVariables,  \* the package-level miss policy
          files,     \* the files there are: the data of each file name
          lexer,     \* the lexer of package parse and where its goroutine is
          channel,   \* the channel lexer.items
          collected  \* the items that the caller of nextItem has got

\* what the lexer's goroutine and the caller of nextItem read and write
lexing == <<lexer, channel, collected>>

vars == <<tmpl, calls, results, AllowMissingVariables, files, lexing>>

defaultOtag == <<"{", "{">>
defaultCtag == <<"}", "}">>

-----------------------------------------------------------------------------
(* Go string primitives                                                    *)

At(s, i) == s[i + 1]
Slice(s, a, b) == SubSeq(s, a + 1, b)

Contains(s, c) == \E i \in 1..Len(s) : s[i] = c

IsSpace(c) == c \in {" ", "\t", "\n", "\r"}

RECURSIVE TrimLeft(_)
TrimLeft(s) ==
    IF Len(s) > 0 /\ IsSpace(s[1]) THEN TrimLeft(Tail(s)) ELSE s

RECURSIVE TrimRight(_)
TrimRight(s) ==
    IF Len(s) > 0 /\ IsSpace(s[Len(s)])
    THEN TrimRight(SubSeq(s, 1, Len(s) - 1))
    ELSE s

\* TrimSpace that trims nothing
TrimSpaceNot(s) == s

TrimSpace(s) == TrimRight(TrimLeft(s))

RECURSIVE IndexOf(_, _, _)
IndexOf(s, c, i) ==
    IF i > Len(s) THEN 0
    ELSE IF s[i] = c THEN i
    ELSE IndexOf(s, c, i + 1)

\* strings.SplitN(s, " ", 2)
SplitN2(s, c) ==
    LET i == IndexOf(s, c, 1)
    IN  IF i = 0 THEN <<s>>
        ELSE <<SubSeq(s, 1, i - 1), SubSeq(s, i + 1, Len(s))>>

-----------------------------------------------------------------------------
(* Elements of a template                                                  *)

textElement(text) == [k |-> "text", text |-> text]

varElement(name, raw) == [k |-> "var", name |-> name, raw |-> raw]

sectionElement(name, inverted, startline, elems, rawBody, otag, ctag) ==
    [k |-> "section", name |-> name, inverted |-> inverted,
     startline |-> startline, elems |-> elems, rawBody |-> rawBody,
     otag |-> otag, ctag |-> ctag]

\* a *Template among the elements: one of its own (what ParseString("")
\* returned), or the one that environment.partials holds under `name'
partialElement(elems) == [k |-> "template", elems |-> elems]

templateOf(name) == [k |-> "ref", name |-> name]

newEnvironment == <<>>

\* The Template under parse.  `open' is the chain of parseSection
\* activations, innermost last; `status' is "run" while parse is looping,
\* and "overflow" when the recursion of the parse does not return (the run
\* ends with the stack exhausted).  `parsing' holds the names of the files
\* whose parseFile has not returned yet.
Template(data, otag, ctag) ==
    [data |-> data, otag |-> otag, ctag |-> ctag, p |-> 0, curline |-> 1,
     elems |-> <<>>, open |-> <<>>, status |-> "run",
     environment |-> newEnvironment, parsing |-> {},
     err |-> [line |-> 0, message |-> "", name |-> <<>>]]

parseError(t, line, message, name) ==
    [t EXCEPT !.status = "error",
              !.err = [line |-> line, message |-> message, name |-> name]]

\* an index or slice bound out of range: the run-time panic of the build
panic(t) == [t EXCEPT !.status = "panic"]

-----------------------------------------------------------------------------
(* Scanning                                                                *)

RECURSIVE scan(_, _, _, _, _)
scan(data, p, i, s, newlines) ==
    IF i + Len(s) > Len(data)
    THEN [eof |-> TRUE, text |-> Slice(data, p, Len(data)), p |-> p,
          newlines |-> 0]
    ELSE LET n == IF At(data, i) = "\n" THEN newlines + 1 ELSE newlines
         IN  IF \A j \in 0..(Len(s) - 1) : At(s, j) = At(data, i + j)
             THEN [eof |-> FALSE, text |-> Slice(data, p, i + Len(s)),
                   p |-> i + Len(s), newlines |-> n]
             ELSE scan(data, p, i + 1, s, n)

readString(t, s) == scan(t.data, t.p, t.p, s, 0)

isBeginningOfLine(t) == t.p = 0 \/ At(t.data, t.p - 1) = "\n"

isEndOfData(t) == t.p = Len(t.data)

\* -2 stands for the index-out-of-range panic of line 463
peekNewLine(t) ==
    IF isEndOfData(t) THEN 0
    ELSE IF At(t.data, t.p) = "\n" THEN 1
    ELSE IF At(t.data, t.p) = "\r"
         THEN IF t.p + 1 >= Len(t.data) THEN -2
              ELSE IF At(t.data, t.p + 1) = "\n" THEN 2 ELSE -1
    ELSE -1

RECURSIVE endsWithWhitespace(_)
endsWithWhitespace(b) ==
    IF Len(b) = 0 THEN TRUE
    ELSE IF b[Len(b)] = "\n" THEN TRUE
    ELSE IF b[Len(b)] \in {" ", "\t"}
         THEN endsWithWhitespace(SubSeq(b, 1, Len(b) - 1))
    ELSE FALSE

RECURSIVE removeTrailingIndent(_)
removeTrailingIndent(s) ==
    IF Len(s) > 0 /\ s[Len(s)] \in {" ", "\t"}
    THEN LET r == removeTrailingIndent(SubSeq(s, 1, Len(s) - 1))
         IN  [text |-> r.text, removed |-> Append(r.removed, s[Len(s)])]
    ELSE [text |-> s, removed |-> <<>>]

removeIndentIfNecessary(elems) ==
    IF Len(elems) > 0 /\ elems[Len(elems)].k = "text"
    THEN LET r == removeTrailingIndent(elems[Len(elems)].text)
         IN  [elems |-> [elems EXCEPT ![Len(elems)] = textElement(r.text)],
              indent |-> r.removed]
    ELSE [elems |-> elems, indent |-> <<>>]

\* The list handed in, the cursor and the indentation after the call.
handleStandaloneLine(elems, t, potentialStandalone) ==
    IF potentialStandalone
    THEN LET followingNewLine == peekNewLine(t)
         IN  IF followingNewLine = -2
             THEN [elems |-> elems, p |-> t.p, indent |-> <<>>,
                   panic |-> TRUE]
             ELSE IF followingNewLine # -1
             THEN LET r == removeIndentIfNecessary(elems)
                  IN  [elems |-> r.elems, p |-> t.p + followingNewLine,
                       indent |-> r.indent, panic |-> FALSE]
             ELSE [elems |-> elems, p |-> t.p, indent |-> <<>>,
                   panic |-> FALSE]
    ELSE [elems |-> elems, p |-> t.p, indent |-> <<>>, panic |-> FALSE]

-----------------------------------------------------------------------------
(* The parser: one iteration of the loop of parse or of parseSection       *)

\* setDelimiters that leaves the tags as they are
setDelimitersNot(t, tag) == t

\* strings.SplitN at the first space and the assignment of the two tags
setDelimiters(t, tag) ==
    LET newtags == SplitN2(TrimSpace(Slice(tag, 1, Len(tag) - 1)), " ")
    IN  IF Len(newtags) = 2
        THEN [t EXCEPT !.otag = newtags[1], !.ctag = newtags[2]]
        ELSE t

(* Partials.  environment.partials maps a name to the elems of the       *)
(* Template parsed from the file of that name; every tag of that name     *)
(* holds the same Template, so what applyIndent writes for one tag is     *)
(* there for all.  os.Getenv("CWD") is taken to be empty and file names   *)
(* to have no trailing slash.  A Template whose parse has not returned   *)
(* is in the environment without elements.                                *)

mustacheExt == <<".", "m", "u", "s", "t", "a", "c", "h", "e">>
stacheExt == <<".", "s", "t", "a", "c", "h", "e">>

\* 0-based index of the last c in s, -1 when there is none
LastIndex(s, c) ==
    IF \E i \in 1..Len(s) : s[i] = c
    THEN (CHOOSE i \in 1..Len(s) :
              s[i] = c /\ \A j \in (i + 1)..Len(s) : s[j] # c) - 1
    ELSE -1

\* path.Base and path.Ext
Base(filename) ==
    IF Len(filename) = 0 THEN <<".">>
    ELSE Slice(filename, LastIndex(filename, "/") + 1, Len(filename))

Ext(filename) ==
    IF LastIndex(filename, ".") > LastIndex(filename, "/")
    THEN Slice(filename, LastIndex(filename, "."), Len(filename))
    ELSE <<>>

\* the names parsePartial tries, in order
filenames(name) ==
    <<name, name \o mustacheExt, name \o stacheExt,
      name, name \o mustacheExt, name \o stacheExt>>

\* the first name that os.Open opens, "" when none
RECURSIVE firstOpened(_, _)
firstOpened(names, i) ==
    IF i > Len(names) THEN <<>>
    ELSE IF Len(names[i]) > 0 /\ names[i] \in DOMAIN files THEN names[i]
    ELSE firstOpened(names, i + 1)

RECURSIVE indentBytes(_, _, _, _)
indentBytes(oldBuf, i, indent, lastElement) ==
    IF i >= Len(oldBuf) THEN <<>>
    ELSE <<At(oldBuf, i)>>
         \o (IF At(oldBuf, i) = "\n" /\ (i # Len(oldBuf) - 1 \/ ~lastElement)
             THEN indent ELSE <<>>)
         \o indentBytes(oldBuf, i + 1, indent, lastElement)

\* indentText that indents nothing
indentTextNot(elem, indent, lastWasStandalone, lastElement) == elem

indentText(elem, indent, lastWasStandalone, lastElement) ==
    textElement((IF ~lastWasStandalone THEN indent ELSE <<>>)
                \o indentBytes(elem.text, 0, indent, lastElement))

\* applyIndent on the Template that `environment' holds under `name';
\* applyIndentElems is its loop from element i on
RECURSIVE applyIndent(_, _, _)
RECURSIVE applyIndentElems(_, _, _, _, _)
applyIndentElems(elems, i, lastWasStandalone, indent, environment) ==
    IF i > Len(elems) THEN [elems |-> elems, environment |-> environment]
    ELSE CASE elems[i].k = "text" ->
                applyIndentElems(
                    [elems EXCEPT ![i] = indentText(@, indent,
                                                    lastWasStandalone,
                                                    i = Len(elems))],
                    i + 1, FALSE, indent, environment)
           [] elems[i].k = "var" ->
                applyIndentElems(elems, i + 1, TRUE, indent, environment)
           [] elems[i].k = "section" ->
                applyIndentElems(elems, i + 1, lastWasStandalone, indent,
                                 environment)
           [] elems[i].k = "ref" ->
                applyIndentElems(elems, i + 1, lastWasStandalone, indent,
                                 applyIndent(environment, elems[i].name,
                                             indent))
           [] elems[i].k = "template" ->
                applyIndentElems(
                    [elems EXCEPT ![i].elems =
                        applyIndentElems(@, 1, FALSE, indent,
                                         environment).elems],
                    i + 1, lastWasStandalone, indent, environment)

indented(name, r) == [r.environment EXCEPT ![name] = r.elems]

applyIndent(environment, name, indent) ==
    indented(name, applyIndentElems(environment[name], 1, FALSE, indent,
                                    environment))

\* the name parseFile registers the Template under
partialName(filename) ==
    Slice(Base(filename), 0, Len(Base(filename)) - Len(Ext(filename)))

RECURSIVE parseAll(_)

\* parseFile: the Template is in the environment before it is parsed
parseFile(filename, environment, parsing) ==
    parseAll([Template(files[filename], defaultOtag, defaultCtag)
                 EXCEPT !.environment =
                            (partialName(filename) :> <<>>) @@ environment,
                        !.parsing = parsing \cup {filename}])

\* applyIndent on the Template under `name' comes back to a Template it is
\* in: it follows the Templates among the elements, not those in sections
RECURSIVE indentRecurs(_, _, _)
indentRecurs(environment, name, applying) ==
    \/ name \in applying
    \/ \E i \in 1..Len(environment[name]) :
           /\ environment[name][i].k = "ref"
           /\ indentRecurs(environment, environment[name][i].name,
                           applying \cup {name})

\* what a partial tag gets: the element, the environment after, or the
\* error of the partial's parse
Partial(status, err, environment, partial) ==
    [status |-> status, err |-> err, environment |-> environment,
     partial |-> partial]

\* parsePartial after parseFile has returned `partial'
parsedPartial(name, indent, partial) ==
    IF partial.status # "ok"
    THEN Partial(partial.status, partial.err, partial.environment,
                 templateOf(name))
    ELSE IF Len(indent) > 0
            /\ indentRecurs([partial.environment EXCEPT
                                 ![name] = partial.elems], name, {})
    THEN Partial("overflow", partial.err, partial.environment,
                 templateOf(name))
    ELSE Partial("ok", partial.err,
                 IF Len(indent) > 0
                 THEN applyIndent([partial.environment EXCEPT
                                      ![name] = partial.elems],
                                  name, indent)
                 ELSE [partial.environment EXCEPT ![name] = partial.elems],
                 templateOf(name))

\* parsePartial that returns an error when no file opens
parsePartialOrError(t, name, indent) ==
    IF Len(firstOpened(filenames(name), 1)) = 0
    THEN Partial("error", [t.err EXCEPT !.message = "no such file"],
                 t.environment, templateOf(name))
    ELSE IF firstOpened(filenames(name), 1) \in t.parsing
    THEN Partial("overflow", t.err, t.environment, templateOf(name))
    ELSE parsedPartial(partialName(firstOpened(filenames(name), 1)), indent,
                       parseFile(firstOpened(filenames(name), 1),
                                 t.environment, t.parsing))

\* a template file that cannot be opened parses as ParseString("")
parsePartial(t, name, indent) ==
    IF Len(firstOpened(filenames(name), 1)) = 0
    THEN Partial("ok", t.err, t.environment,
                 partialElement(
                     parseAll(Template(<<>>, defaultOtag, defaultCtag)).elems))
    ELSE IF firstOpened(filenames(name), 1) \in t.parsing
    THEN Partial("overflow", t.err, t.environment, templateOf(name))
    ELSE parsedPartial(partialName(firstOpened(filenames(name), 1)), indent,
                       parseFile(firstOpened(filenames(name), 1),
                                 t.environment, t.parsing))

\* lookupPartial, and parsePartial when it returns nil
partialOf(t, name, indent) ==
    IF name \in DOMAIN t.environment
    THEN Partial("ok", t.err, t.environment, templateOf(name))
    ELSE parsePartial(t, name, indent)

\* the partial appended to the elements of the section that is open, or
\* to those of the Template; the error of its parse returned
appendPartial(t, pr) ==
    CASE pr.status = "error" ->
           [t EXCEPT !.status = "error", !.err = pr.err,
                     !.environment = pr.environment]
      [] pr.status \in {"panic", "overflow"} ->
           [t EXCEPT !.status = pr.status]
      [] OTHER ->
           IF Len(t.open) = 0
           THEN [t EXCEPT !.elems = Append(@, pr.partial),
                          !.environment = pr.environment]
           ELSE [t EXCEPT !.open[Len(t.open)].elems = Append(@, pr.partial),
                          !.environment = pr.environment]

\* the text up to the close tag: "}" + ctag when the tag starts with "{"
readTag(t) ==
    IF t.p < Len(t.data) /\ At(t.data, t.p) = "{"
    THEN readString(t, <<"}">> \o t.ctag)
    ELSE readString(t, t.ctag)

\* the innermost open section, its list of elements replaced / extended
setOpenElems(t, elems) ==
    [t EXCEPT !.open[Len(t.open)].elems = elems]

writeRawBody(t, body) ==
    [t EXCEPT !.open[Len(t.open)].rawBody = @ \o body]

pushSection(t, name, inverted) ==
    [t EXCEPT !.open = Append(@, sectionElement(name, inverted, t.curline,
                                                <<>>, <<>>, t.otag, t.ctag))]

\* closeSection that closes every open section
closeSectionAndOuter(t) ==
    [t EXCEPT !.open = <<>>, !.elems = Append(@, t.open[1])]

\* parseSection returned nil: its caller appends the section to its own list
closeSection(t) ==
    LET se == t.open[Len(t.open)]
        rest == SubSeq(t.open, 1, Len(t.open) - 1)
    IN  IF Len(rest) = 0
        THEN [t EXCEPT !.open = rest, !.elems = Append(@, se)]
        ELSE [t EXCEPT !.open = [rest EXCEPT ![Len(rest)].elems =
                                     Append(@, se)]]

\* the switch of parse on the first byte of the tag
parseTag(t, tag, potentialStandalone) ==
    LET h == handleStandaloneLine(t.elems, t, potentialStandalone)
        th == [t EXCEPT !.elems = h.elems, !.p = h.p]
    IN  CASE tag[1] = "!" ->
               IF h.panic THEN panic(t) ELSE th
          [] tag[1] \in {"#", "^"} ->
               IF h.panic THEN panic(t)
               ELSE pushSection(th, TrimSpace(Slice(tag, 1, Len(tag))),
                                tag[1] = "^")
          [] tag[1] = "/" ->
               parseError(t, t.curline, "unmatched close tag", <<>>)
          [] tag[1] = ">" ->
               IF h.panic THEN panic(t)
               ELSE appendPartial(th,
                        partialOf(th, TrimSpace(Slice(tag, 1, Len(tag))),
                                  h.indent))
          [] tag[1] = "=" ->
               IF tag[Len(tag)] # "="
               THEN parseError(t, t.curline, "Invalid meta tag", <<>>)
               ELSE IF Len(tag) < 2 THEN panic(t)
               ELSE LET td == setDelimiters(t, tag)
                        hd == handleStandaloneLine(td.elems, td,
                                                   potentialStandalone)
                    IN  IF hd.panic THEN panic(td)
                        ELSE [td EXCEPT !.elems = hd.elems, !.p = hd.p]
          [] tag[1] = "{" ->
               IF tag[Len(tag)] = "}"
               THEN [t EXCEPT !.elems = Append(@,
                        varElement(TrimSpace(Slice(tag, 1, Len(tag) - 1)),
                                   TRUE))]
               ELSE t
          [] tag[1] = "&" ->
               [t EXCEPT !.elems = Append(@,
                   varElement(TrimSpace(Slice(tag, 1, Len(tag))), TRUE))]
          [] OTHER ->
               [t EXCEPT !.elems = Append(@, varElement(tag, FALSE))]

\* parse, lines 337-397: the tag has been read as rt
parseTagRead(t, potentialStandalone, rt) ==
    IF rt.eof
    THEN parseError(t, t.curline, "unmatched open tag", <<>>)
    ELSE IF Len(TrimSpace(Slice(rt.text, 0, Len(rt.text) - Len(t.ctag)))) = 0
    THEN parseError(t, t.curline + rt.newlines, "empty tag", <<>>)
    ELSE parseTag([t EXCEPT !.p = rt.p, !.curline = @ + rt.newlines],
                  TrimSpace(Slice(rt.text, 0, Len(rt.text) - Len(t.ctag))),
                  potentialStandalone)

\* the text before the open tag r has found
textBefore(t, r) == Slice(r.text, 0, Len(r.text) - Len(t.otag))

\* the Template once readString(otag) has returned r
afterText(t, r) == [t EXCEPT !.p = r.p, !.curline = @ + r.newlines]

\* parse, lines 322-335: readString has found the open tag
parseOpened(t, r) ==
    parseTagRead([afterText(t, r) EXCEPT !.elems =
                     Append(@, textElement(textBefore(t, r)))],
                 (isBeginningOfLine(t) \/ Contains(r.text, "\n"))
                     /\ endsWithWhitespace(textBefore(t, r)),
                 readTag(afterText(t, r)))

\* parse with the text after the last tag dropped
parseDropsTail(t) ==
    IF readString(t, t.otag).eof
    THEN [t EXCEPT !.status = "ok"]
    ELSE parseOpened(t, readString(t, t.otag))

\* one iteration of the loop of parse
parse(t) ==
    IF readString(t, t.otag).eof
    THEN [t EXCEPT !.elems = Append(@, textElement(readString(t, t.otag).text)),
                   !.status = "ok"]
    ELSE parseOpened(t, readString(t, t.otag))

\* the switch of parseSection on the first byte of the tag
parseSectionTag(t, tag, potentialStandalone) ==
    LET section == t.open[Len(t.open)]
        h == handleStandaloneLine(section.elems, t, potentialStandalone)
        th == [setOpenElems(t, h.elems) EXCEPT !.p = h.p]
        full == t.otag \o tag \o t.ctag
    IN  CASE tag[1] = "!" ->
               IF h.panic THEN panic(t) ELSE th
          [] tag[1] \in {"#", "^"} ->
               IF h.panic THEN panic(writeRawBody(t, full))
               ELSE pushSection(writeRawBody(th, full),
                                TrimSpace(Slice(tag, 1, Len(tag))),
                                tag[1] = "^")
          [] tag[1] = "/" ->
               LET name == TrimSpace(Slice(tag, 1, Len(tag)))
               IN  IF name # section.name
                   THEN parseError(t, t.curline, "interleaved closing tag",
                                   name)
                   ELSE IF h.panic THEN panic(t)
                   ELSE closeSection(th)
          [] tag[1] = ">" ->
               LET name == TrimSpace(Slice(tag, 1, Len(tag)))
                   tw == writeRawBody(t, t.otag \o <<">">> \o name \o t.ctag)
                   hr == handleStandaloneLine(t.elems, t, potentialStandalone)
               IN  IF hr.panic THEN panic(tw)
                   ELSE appendPartial(
                            [tw EXCEPT !.elems = hr.elems, !.p = hr.p],
                            partialOf(tw, name, hr.indent))
          [] tag[1] = "=" ->
               IF tag[Len(tag)] # "="
               THEN parseError(t, t.curline, "Invalid meta tag", <<>>)
               ELSE IF Len(tag) < 2 THEN panic(t)
               ELSE LET td == setDelimiters(t, tag)
                        hd == handleStandaloneLine(section.elems, td,
                                                   potentialStandalone)
                    IN  IF hd.panic THEN panic(td)
                        ELSE [setOpenElems(td, hd.elems) EXCEPT !.p = hd.p]
          [] tag[1] = "{" ->
               IF Len(tag) < 2 THEN panic(t)
               ELSE
               LET name == TrimSpace(Slice(tag, 1, Len(tag) - 1))
                   tw == writeRawBody(t, t.otag \o <<"{">> \o name
                                         \o <<"}">> \o t.ctag)
               IN  IF tag[Len(tag)] = "}"
                   THEN setOpenElems(tw, Append(section.elems,
                                                varElement(name, TRUE)))
                   ELSE tw
          [] tag[1] = "&" ->
               setOpenElems(writeRawBody(t, full),
                   Append(section.elems,
                       varElement(TrimSpace(Slice(tag, 1, Len(tag))), TRUE)))
          [] OTHER ->
               setOpenElems(writeRawBody(t, full),
                   Append(section.elems, varElement(tag, FALSE)))

\* parseSection, lines 223-302: the tag has been read as rt
parseSectionTagRead(t, potentialStandalone, rt) ==
    IF rt.eof
    THEN parseError(t, t.curline, "unmatched open tag", <<>>)
    ELSE IF Len(TrimSpace(Slice(rt.text, 0, Len(rt.text) - Len(t.ctag)))) = 0
    THEN parseError(t, t.curline + rt.newlines, "empty tag", <<>>)
    ELSE parseSectionTag(
             [t EXCEPT !.p = rt.p, !.curline = @ + rt.newlines],
             TrimSpace(Slice(rt.text, 0, Len(rt.text) - Len(t.ctag))),
             potentialStandalone)

\* parseSection, lines 204-221: readString has found the open tag
parseSectionOpened(t, r) ==
    parseSectionTagRead(
        setOpenElems(writeRawBody(afterText(t, r), textBefore(t, r)),
                     Append(t.open[Len(t.open)].elems,
                            textElement(textBefore(t, r)))),
        (isBeginningOfLine(t) \/ Contains(r.text, "\n"))
            /\ endsWithWhitespace(textBefore(t, r)),
        readTag(afterText(t, r)))

\* one iteration of the loop of parseSection, for the innermost open section
parseSection(t) ==
    IF readString(t, t.otag).eof
    THEN parseError(t, t.open[Len(t.open)].startline,
                    "Section has no closing tag", t.open[Len(t.open)].name)
    ELSE parseSectionOpened(t, readString(t, t.otag))

parseIteration(t) ==
    IF Len(t.open) = 0 THEN parse(t) ELSE parseSection(t)

parseAll(t) ==
    IF t.status = "run" THEN parseAll(parseIteration(t)) ELSE t

\* the Template of the environment that a partial tag holds, `depth'
\* Templates deep in the Templates of the tags that hold them
templateAt(name, environment, depth) ==
    [k |-> "partial", name |-> name, environment |-> environment,
     depth |-> depth]

\* the elements with every partial tag holding its Template
RECURSIVE pointedTo(_, _, _)
pointedTo(elems, environment, depth) ==
    [i \in 1..Len(elems) |->
        CASE elems[i].k = "ref" ->
               templateAt(elems[i].name, environment, depth)
          [] elems[i].k \in {"section", "template"} ->
               [elems[i] EXCEPT !.elems = pointedTo(@, environment, depth)]
          [] OTHER -> elems[i]]

\* the Template that the caller of parse gets
parsed(t) ==
    IF t.status = "ok"
    THEN [t EXCEPT !.elems = pointedTo(@, t.environment, 1)]
    ELSE t

\* parseString: the Template, or the error with no Template
parseString(data, otag, ctag) == parsed(parseAll(Template(data, otag, ctag)))

ParseString(data) == parseString(data, defaultOtag, defaultCtag)

ParseFile(filename) == parsed(parseFile(filename, newEnvironment, {}))

-----------------------------------------------------------------------------
(* The partial providers.  A slice field is nil or holds items.            *)

nilSlice == [nil |-> TRUE, items |-> <<>>]
sliceOf(items) == [nil |-> FALSE, items |-> items]

FileProvider(Paths, Extensions) ==
    [k |-> "file", Paths |-> Paths, Extensions |-> Extensions]

StaticProvider(partials) == [k |-> "static", partials |-> partials]

\* os.Open succeeds
Opens(name) == Len(name) > 0 /\ name \in DOMAIN files

\* path.Join of a directory and a file name that need no cleaning
Join(dir, file) ==
    IF Len(dir) = 0 THEN file
    ELSE IF Len(file) = 0 THEN dir
    ELSE dir \o <<"/">> \o file

pathsOf(fp) == IF ~fp.Paths.nil THEN fp.Paths.items ELSE << <<>> >>

extsOf(fp) ==
    IF ~fp.Extensions.nil THEN fp.Extensions.items
    ELSE << <<>>, mustacheExt, stacheExt >>

\* the inner loop of FileProvider.Get: the first name that opens, from
\* extension j on, or the filename there was
RECURSIVE openedWith(_, _, _, _, _)
openedWith(dir, name, exts, j, filename) ==
    IF j > Len(exts) THEN filename
    ELSE IF Opens(Join(dir, name \o exts[j]))
    THEN Join(dir, name \o exts[j])
    ELSE openedWith(dir, name, exts, j + 1, filename)

\* the outer loop: the break leaves the inner loop only
RECURSIVE openedIn(_, _, _, _, _)
openedIn(paths, i, exts, name, filename) ==
    IF i > Len(paths) THEN filename
    ELSE openedIn(paths, i + 1, exts, name,
                  openedWith(paths[i], name, exts, 1, filename))

FileProviderGet(fp, name) ==
    IF Len(openedIn(pathsOf(fp), 1, extsOf(fp), name, <<>>)) = 0
    THEN ParseString(<<>>)
    ELSE ParseFile(openedIn(pathsOf(fp), 1, extsOf(fp), name, <<>>))

\* ParseStringPartials, for data without partial tags
ParseStringPartials(data, partials) == ParseString(data)

StaticProviderGet(sp, name) ==
    IF name \in DOMAIN sp.partials
    THEN ParseStringPartials(sp.partials[name], sp)
    ELSE ParseString(<<>>)

\* PartialProvider.Get
Get(provider, name) ==
    IF provider.k = "file" THEN FileProviderGet(provider, name)
    ELSE StaticProviderGet(provider, name)

-----------------------------------------------------------------------------
(* Context values: what reflect.Value holds.  "invalid" is the zero        *)
(* reflect.Value, "nil" a nil interface; a value stored in an interface    *)
(* is modelled by the value itself, since lookup, indirect, isEmpty and    *)
(* Interface() all unwrap it.                                              *)

Invalid == [k |-> "invalid"]
Nil == [k |-> "nil"]
Bool(b) == [k |-> "bool", b |-> b]
String(s) == [k |-> "string", s |-> s]
Slice_(items) == [k |-> "slice", items |-> items]
Map(m) == [k |-> "map", m |-> m]
\* an int of one decimal digit
Int_(n) == [k |-> "int", n |-> n]
\* a struct: its fields, and what the methods without arguments that its
\* type declares return, those with a value receiver and those with a
\* pointer receiver
Struct(fields, methods, ptrMethods) ==
    [k |-> "struct", fields |-> fields, methods |-> methods,
     ptrMethods |-> ptrMethods]
\* a map of a named type that declares methods
NamedMap(m, methods, ptrMethods) ==
    [k |-> "map", m |-> m, methods |-> methods, ptrMethods |-> ptrMethods]
\* a pointer that is not nil
Ptr(elem) == [k |-> "ptr", elem |-> elem]
\* a func taking `arity' strings: it returns pre \o arguments \o post when
\* `str', and a non-string otherwise
Func(arity, str, pre, post) ==
    [k |-> "func", arity |-> arity, str |-> str, pre |-> pre, post |-> post]

IsValid(v) == v.k # "invalid"

\* reflect.ValueOf
ValueOf(c) == IF c.k = "nil" THEN Invalid ELSE c

\* the byte of a character, for the order fmt prints map keys in
Byte(c) ==
    CASE c = "\t" -> 9 [] c = "\n" -> 10 [] c = "\r" -> 13 [] c = " " -> 32
      [] c = "!" -> 33 [] c = "\"" -> 34 [] c = "#" -> 35 [] c = "&" -> 38
      [] c = "'" -> 39 [] c = "." -> 46 [] c = "/" -> 47 [] c = "<" -> 60
      [] c = "=" -> 61 [] c = ">" -> 62 [] c = "^" -> 94 [] c = "a" -> 97
      [] c = "b" -> 98 [] c = "c" -> 99 [] c = "m" -> 109 [] c = "s" -> 115
      [] c = "x" -> 120 [] c = "y" -> 121 [] c = "{" -> 123
      [] c = "|" -> 124 [] c = "}" -> 125 [] OTHER -> 128

RECURSIVE Less(_, _)
Less(a, b) ==
    IF Len(b) = 0 THEN FALSE
    ELSE IF Len(a) = 0 THEN TRUE
    ELSE IF Byte(a[1]) # Byte(b[1]) THEN Byte(a[1]) < Byte(b[1])
    ELSE Less(Tail(a), Tail(b))

RECURSIVE SortedKeys(_)
SortedKeys(keys) ==
    IF keys = {} THEN <<>>
    ELSE LET least == CHOOSE a \in keys : \A b \in keys \ {a} : Less(a, b)
         IN  <<least>> \o SortedKeys(keys \ {least})

\* fmt.Sprint
RECURSIVE Sprint(_)
RECURSIVE SprintItems(_, _)
RECURSIVE SprintEntries(_, _, _)
SprintItems(items, i) ==
    IF i > Len(items) THEN <<>>
    ELSE (IF i > 1 THEN <<" ">> ELSE <<>>) \o Sprint(items[i])
         \o SprintItems(items, i + 1)
SprintEntries(m, keys, i) ==
    IF i > Len(keys) THEN <<>>
    ELSE (IF i > 1 THEN <<" ">> ELSE <<>>) \o keys[i] \o <<":">>
         \o Sprint(m[keys[i]]) \o SprintEntries(m, keys, i + 1)
Sprint(v) ==
    CASE v.k = "string" -> v.s
      [] v.k = "bool" -> IF v.b THEN <<"t", "r", "u", "e">>
                         ELSE <<"f", "a", "l", "s", "e">>
      [] v.k = "nil" -> <<"<", "n", "i", "l", ">">>
      [] v.k = "slice" -> <<"[">> \o SprintItems(v.items, 1) \o <<"]">>
      [] v.k = "map" ->
           <<"m", "a", "p", "[">>
           \o SprintEntries(v.m, SortedKeys(DOMAIN v.m), 1) \o <<"]">>
      [] v.k = "func" -> <<"0", "x">>   \* the address of the func
      [] v.k = "int" ->
           <<(<<"0", "1", "2", "3", "4", "5", "6", "7", "8", "9">>)[v.n + 1]>>

\* template.HTMLEscape of the standard library
\* HTMLEscape that leaves the double quote alone
HTMLEscapeByteNoQuote(c) ==
    CASE c = "&" -> <<"&", "a", "m", "p", ";">>
      [] c = "<" -> <<"&", "l", "t", ";">>
      [] c = ">" -> <<"&", "g", "t", ";">>
      [] OTHER -> <<c>>

HTMLEscapeByte(c) ==
    CASE c = "\"" -> <<"&", "#", "3", "4", ";">>
      [] c = "'" -> <<"&", "#", "3", "9", ";">>
      [] c = "&" -> <<"&", "a", "m", "p", ";">>
      [] c = "<" -> <<"&", "l", "t", ";">>
      [] c = ">" -> <<"&", "g", "t", ";">>
      [] OTHER -> <<c>>

RECURSIVE HTMLEscape(_)
HTMLEscape(s) ==
    IF Len(s) = 0 THEN <<>>
    ELSE HTMLEscapeByte(s[1]) \o HTMLEscape(Tail(s))

-----------------------------------------------------------------------------
(* The context resolver                                                    *)

\* the methods without arguments of the type of v, each with what it returns
methodsOfType(v) ==
    IF "methods" \in DOMAIN v THEN v.methods ELSE <<>>

\* methodsAt with the methods of the pointer type at hand for a value too
methodsAtValueToo(v) ==
    IF v.k = "ptr" /\ "methods" \in DOMAIN v.elem
    THEN v.elem.methods @@ v.elem.ptrMethods
    ELSE IF "methods" \in DOMAIN v THEN v.methods @@ v.ptrMethods
    ELSE <<>>

\* the method set of v: a pointer has the methods of both receivers
methodsAt(v) ==
    IF v.k = "ptr"
    THEN IF "methods" \in DOMAIN v.elem
         THEN v.elem.methods @@ v.elem.ptrMethods
         ELSE <<>>
    ELSE methodsOfType(v)

\* the loop of lookup over one frame (`for v.IsValid()'): the value found,
\* or not found when the loop leaves the frame (`continue Outer')
RECURSIVE lookupFrame(_, _)
lookupFrame(v, name) ==
    IF ~IsValid(v) THEN [found |-> FALSE, v |-> Invalid]
    ELSE IF name \in DOMAIN methodsAt(v)
    THEN [found |-> TRUE, v |-> methodsAt(v)[name]]
    ELSE IF name = <<".">> THEN [found |-> TRUE, v |-> v]
    ELSE CASE v.k = "ptr" -> lookupFrame(v.elem, name)
           [] v.k = "struct" ->
                IF name \in DOMAIN v.fields
                THEN [found |-> TRUE, v |-> v.fields[name]]
                ELSE [found |-> FALSE, v |-> Invalid]
           [] v.k = "map" ->
                IF name \in DOMAIN v.m
                THEN [found |-> TRUE, v |-> v.m[name]]
                ELSE [found |-> FALSE, v |-> Invalid]
           [] OTHER -> [found |-> FALSE, v |-> Invalid]

\* lookupName with the chain scanned from its last frame to its first
RECURSIVE lookupNameFromLast(_, _, _)
lookupNameFromLast(contextChain, i, name) ==
    IF i > Len(contextChain) THEN Invalid
    ELSE LET r == lookupFrame(contextChain[Len(contextChain) + 1 - i], name)
         IN  IF r.found THEN r.v
             ELSE lookupNameFromLast(contextChain, i + 1, name)

RECURSIVE lookupName(_, _, _)
lookupName(contextChain, i, name) ==
    IF i > Len(contextChain) THEN Invalid
    ELSE LET r == lookupFrame(contextChain[i], name)
         IN  IF r.found THEN r.v
             ELSE lookupName(contextChain, i + 1, name)

\* lookup with the later segments also looked for in the frames of the chain
RECURSIVE lookupRestInChain(_, _)
lookupRestInChain(contextChain, name) ==
    IF name # <<".">> /\ Contains(name, ".")
    THEN LET parts == SplitN2(name, ".")
             v == lookupRestInChain(contextChain, parts[1])
         IN  lookupRestInChain(<<v>> \o contextChain, parts[2])
    ELSE lookupName(contextChain, 1, name)

RECURSIVE lookup(_, _)
lookup(contextChain, name) ==
    IF name # <<".">> /\ Contains(name, ".")
    THEN LET parts == SplitN2(name, ".")
             v == lookup(contextChain, parts[1])
         IN  lookup(<<v>>, parts[2])
    ELSE lookupName(contextChain, 1, name)

RECURSIVE indirect(_)
indirect(v) == IF v.k = "ptr" THEN indirect(v.elem) ELSE v

isEmpty(v) ==
    IF ~IsValid(v) \/ v.k = "nil" THEN TRUE
    ELSE CASE indirect(v).k = "bool" -> ~indirect(v).b
           [] indirect(v).k = "slice" -> Len(indirect(v).items) = 0
           [] OTHER -> FALSE

-----------------------------------------------------------------------------
(* The renderer.  A render returns what it wrote (out), the element or     *)
(* list it walked as the walk left it (a section whose value is a func     *)
(* has its elems assigned), and how it ended: "ok", "panic" (an            *)
(* unrecovered run-time panic) or "missing" (the missing-variable error    *)
(* for `name'), or "overflow" (partials that render themselves without    *)
(* end: a render more than MaxNesting Templates deep stands for one that   *)
(* does not return).  `seen' is the history of the calls of renderElement:     *)
(* each element with the contextChain it was handed.                       *)

Rendered(out, elems) ==
    [out |-> out, elems |-> elems, status |-> "ok", name |-> <<>>,
     seen |-> <<>>]

Aborted(out, elems, status, name) ==
    [out |-> out, elems |-> elems, status |-> status, name |-> name,
     seen |-> <<>>]

\* the calls in `seen' made before those of r
Seen(seen, r) == [r EXCEPT !.seen = seen \o @]

\* the miss policy for a variable tag
missingVariable(elem) ==
    IF AllowMissingVariables THEN Rendered(<<>>, elem)
    ELSE Aborted(<<>>, elem, "missing", elem.name)

\* what a func returns for the arguments handed to it
Call(fn, args) == fn.pre \o args \o fn.post

RECURSIVE renderElements(_, _, _)
RECURSIVE renderElement(_, _)
RECURSIVE renderSection(_, _)
RECURSIVE renderContexts(_, _, _, _)
RECURSIVE renderTemplate(_, _)

\* prepend what r wrote before `rest'
Before(r, rest) == Seen(r.seen, [rest EXCEPT !.out = r.out \o @])

\* the loop of renderTemplate, and of renderSection over section.elems:
\* elems[i] has been rendered as r
elementsAfter(elems, i, contextChain, r) ==
    IF r.status # "ok"
    THEN Seen(r.seen, Aborted(r.out, [elems EXCEPT ![i] = r.elems],
                              r.status, r.name))
    ELSE Before(r, renderElements([elems EXCEPT ![i] = r.elems], i + 1,
                                      contextChain))

renderElements(elems, i, contextChain) ==
    IF i > Len(elems) THEN Rendered(<<>>, elems)
    ELSE elementsAfter(elems, i, contextChain,
                       renderElement(elems[i], contextChain))

\* evaluate, given the outcome t of parseString
evaluateParsed(data, t, contextChain) ==
    CASE t.status = "ok" ->
           [renderElements(t.elems, 1, contextChain) EXCEPT !.elems = <<>>]
      [] t.status = "error" -> Rendered(data, <<>>)
      [] OTHER -> Aborted(<<>>, <<>>, t.status, <<>>)

evaluate(data, otag, ctag, contextChain) ==
    evaluateParsed(data, parseString(data, otag, ctag), contextChain)

\* chain2 with ctx in the place of the first frame of contextChain
chain2InPlace(ctx, contextChain) == <<ctx>> \o Tail(contextChain)

\* chain2 of renderSection: ctx at index 0, contextChain copied after it
chain2(ctx, contextChain) == <<ctx>> \o contextChain

\* the loop of renderSection over contexts: the section's elems have been
\* rendered with contexts[j] as r
contextsAfter(section, contexts, j, contextChain, r) ==
    IF r.status # "ok"
    THEN Seen(r.seen, Aborted(r.out, [section EXCEPT !.elems = r.elems],
                              r.status, r.name))
    ELSE Before(r, renderContexts([section EXCEPT !.elems = r.elems],
                                      contexts, j + 1, contextChain))

renderContexts(section, contexts, j, contextChain) ==
    IF j > Len(contexts) THEN Rendered(<<>>, section)
    ELSE contextsAfter(section, contexts, j, contextChain,
             renderElements(section.elems, 1, chain2(contexts[j],
                                                     contextChain)))

\* the func case of renderSection, given the outcome of evaluate
sectionFunc(section, context, contextChain, content) ==
    IF content.status # "ok"
    THEN Aborted(<<>>, section, content.status, content.name)
    ELSE Seen(content.seen,
              renderContexts([section EXCEPT !.elems =
                                 <<textElement(content.out)>>],
                             <<context>>, 1, contextChain))

RECURSIVE Reverse(_)
Reverse(s) == IF s = <<>> THEN <<>> ELSE Append(Reverse(Tail(s)), Head(s))

\* sectionContexts with the elements of a list collected last to first
sectionContextsReversed(section, value, context) ==
    IF section.inverted THEN <<context>>
    ELSE CASE indirect(value).k = "slice" -> Reverse(indirect(value).items)
           [] indirect(value).k \in {"map", "struct"} -> <<value>>
           [] OTHER -> <<context>>

\* the contexts renderSection collects for a section it does render
sectionContexts(section, value, context) ==
    IF section.inverted THEN <<context>>
    ELSE CASE indirect(value).k = "slice" -> indirect(value).items
           [] indirect(value).k \in {"map", "struct"} -> <<value>>
           [] OTHER -> <<context>>

\* renderSection, given the value the name looks up to
sectionValue(section, contextChain, value) ==
    IF Len(contextChain) = 0
    THEN Aborted(<<>>, section, "panic", <<>>)
    ELSE IF (isEmpty(value) /\ ~section.inverted)
            \/ (~isEmpty(value) /\ section.inverted)
    THEN Rendered(<<>>, section)
    ELSE IF ~section.inverted /\ value.k = "func"
    THEN IF value.arity # 1
         THEN Aborted(<<>>, section, "panic", <<>>)
         ELSE IF ~value.str
         THEN renderContexts(section,
                             <<contextChain[Len(contextChain)]>>, 1,
                             contextChain)
         ELSE sectionFunc(section, contextChain[Len(contextChain)],
                          contextChain,
                          evaluate(Call(value, section.rawBody),
                                   section.otag, section.ctag, contextChain))
    ELSE renderContexts(section,
             sectionContexts(section, value,
                             contextChain[Len(contextChain)]),
             1, contextChain)

renderSection(section, contextChain) ==
    sectionValue(section, contextChain, lookup(contextChain, section.name))

\* the func case of a variable, given the outcome of evaluate; a panic
\* under it is recovered by the deferred function of renderElement
varFunc(element, content) ==
    IF content.status = "panic" THEN Rendered(<<>>, element)
    ELSE IF content.status # "ok"
    THEN Aborted(<<>>, element, content.status, content.name)
    ELSE IF element.raw THEN Seen(content.seen, Rendered(content.out, element))
    ELSE Seen(content.seen, Rendered(HTMLEscape(content.out), element))

\* varValue that writes nothing for a name it does not find
varValueQuietMiss(element, contextChain, val) ==
    IF ~IsValid(val) THEN Rendered(<<>>, element)
    ELSE IF val.k = "func" THEN Rendered(<<>>, element)
    ELSE IF element.raw THEN Rendered(Sprint(val), element)
    ELSE Rendered(HTMLEscape(Sprint(val)), element)

\* the varElement case of renderElement, given the value looked up
varValue(element, contextChain, val) ==
    IF ~IsValid(val) THEN missingVariable(element)
    ELSE IF val.k = "func"
    THEN IF val.arity # 0 \/ ~val.str
         THEN Rendered(<<>>, element)   \* Call panics and is recovered, or ""
         ELSE varFunc(element, evaluate(Call(val, <<>>), defaultOtag,
                                        defaultCtag, contextChain))
    ELSE IF element.raw THEN Rendered(Sprint(val), element)
    ELSE Rendered(HTMLEscape(Sprint(val)), element)

\* a partial, its elems as its render left them
partialAfter(element, r) == [r EXCEPT !.elems = [element EXCEPT !.elems = @]]

MaxNesting == 3

\* the Template of the environment, rendered
templateAfter(element, r) == [r EXCEPT !.elems = element]

\* the Template rendered with the outermost frame alone
renderTemplateOutside(element, contextChain) ==
    IF element.depth > MaxNesting
    THEN Aborted(<<>>, element, "overflow", <<>>)
    ELSE templateAfter(element,
             renderElements(pointedTo(element.environment[element.name],
                                      element.environment,
                                      element.depth + 1),
                            1, <<contextChain[Len(contextChain)]>>))

renderTemplate(element, contextChain) ==
    IF element.depth > MaxNesting
    THEN Aborted(<<>>, element, "overflow", <<>>)
    ELSE templateAfter(element,
             renderElements(pointedTo(element.environment[element.name],
                                      element.environment,
                                      element.depth + 1),
                            1, contextChain))

\* a call of renderElement
seenWith(element, contextChain) ==
    [element |-> element, contextChain |-> contextChain]

renderElement(element, contextChain) ==
    Seen(<<seenWith(element, contextChain)>>,
         CASE element.k = "text" -> Rendered(element.text, element)
           [] element.k = "var" ->
                varValue(element, contextChain,
                         lookup(contextChain, element.name))
           [] element.k = "section" -> renderSection(element, contextChain)
           [] element.k = "template" ->
                partialAfter(element,
                             renderElements(element.elems, 1, contextChain))
           [] element.k = "partial" ->
                renderTemplate(element, contextChain))

\* contextChainOf with the contexts taken last to first
RECURSIVE contextChainOfReversed(_)
contextChainOfReversed(context) ==
    IF Len(context) = 0 THEN <<>>
    ELSE Append(contextChainOfReversed(Tail(context)), ValueOf(context[1]))

RECURSIVE contextChainOf(_)
contextChainOf(context) ==
    IF Len(context) = 0 THEN <<>>
    ELSE <<ValueOf(context[1])>> \o contextChainOf(Tail(context))

\* Template.Render
Render(t, context) == renderElements(t.elems, 1, contextChainOf(context))

\* the key of the frame that RenderInLayout builds
contentName == <<"c", "o", "n", "t", "e", "n", "t">>

\* allContext of RenderInLayout with the content frame put last
allContextContentLast(context, content) ==
    context \o <<Map(contentName :> String(content))>>

\* allContext of RenderInLayout: map[string]string{"content": content} at
\* index 0, the caller's contexts copied after it
allContext(context, content) ==
    <<Map(contentName :> String(content))>> \o context

\* the rest of Template.RenderInLayout once tmpl.Render has returned r
layoutAfter(layout, context, r) ==
    IF r.status # "ok" THEN r
    ELSE Seen(r.seen, [Render(layout, allContext(context, r.out))
                          EXCEPT !.elems = r.elems])

\* Template.RenderInLayout
RenderInLayout(t, layout, context) ==
    layoutAfter(layout, context, Render(t, context))

-----------------------------------------------------------------------------
(* The program as a state machine: ParseString runs its loop one           *)
(* iteration at a time, then the caller renders the Template with each     *)
(* context list of `calls' in turn.                                        *)

\* all strings over `alphabet' of at most n characters
RECURSIVE Strings(_, _)
Strings(alphabet, n) ==
    IF n = 0 THEN {<<>>}
    ELSE LET shorter == Strings(alphabet, n - 1)
         IN  shorter \cup {Append(s, c) : s \in shorter, c \in alphabet}

\* all lists of at most n of the given contexts
Lists(contexts, n) == Strings(contexts, n)

\* no lexer was made: lex was not called
noLexer == [pc |-> "none"]
noItems == [closed |-> FALSE]

InitWithFiles(templates, callLists, policies, fileSystems) ==
    /\ tmpl \in {Template(data, defaultOtag, defaultCtag) : data \in templates}
    /\ calls \in callLists
    /\ results = <<>>
    /\ AllowMissingVariables \in policies
    /\ files \in fileSystems
    /\ lexer = noLexer
    /\ channel = noItems
    /\ collected = <<>>

\* no files
InitWith(templates, callLists, policies) ==
    InitWithFiles(templates, callLists, policies, {<<>>})

\* one iteration of the loop of parse / parseSection
ParseStep ==
    /\ tmpl.status = "run"
    /\ tmpl' = parsed(parseIteration(tmpl))
    /\ UNCHANGED <<calls, results, AllowMissingVariables, files, lexing>>

\* tmpl.Render(context...) on the parsed Template
Returned(context, r) ==
    [context |-> context, out |-> r.out, status |-> r.status,
     name |-> r.name, elems |-> r.elems, seen |-> r.seen]

RenderCall ==
    /\ tmpl.status = "ok"
    /\ calls # <<>>
    /\ results' = Append(results, Returned(Head(calls),
                                           Render(tmpl, Head(calls))))
    /\ tmpl' = [tmpl EXCEPT !.elems = results'[Len(results')].elems]
    /\ calls' = Tail(calls)
    /\ UNCHANGED <<AllowMissingVariables, files, lexing>>

Next == ParseStep \/ RenderCall

\* provider.Get(name) of one of the providers, at most max times
GetCall(providers, names, max) ==
    /\ Cardinality({i \in 1..Len(results) :
                        "provider" \in DOMAIN results[i]}) < max
    /\ \E provider \in providers, name \in names :
           results' = Append(results,
                             [provider |-> provider, name |-> name,
                              template |-> Get(provider, name)])
    /\ UNCHANGED <<tmpl, calls, AllowMissingVariables, files, lexing>>

\* RenderInLayout(data, layoutData, context...) once data is parsed: the
\* layout is parsed, and an error of either parse is returned before any
\* rendering
RenderInLayoutCall(layouts) ==
    /\ tmpl.status = "ok"
    /\ calls # <<>>
    /\ \E layoutData \in layouts :
           /\ parseString(layoutData, defaultOtag, defaultCtag).status = "ok"
           /\ results' =
                  Append(results,
                         [layout |-> layoutData,
                          content |-> Render(tmpl, Head(calls)).out] @@
                         Returned(Head(calls),
                                  RenderInLayout(
                                      tmpl,
                                      parseString(layoutData, defaultOtag,
                                                  defaultCtag),
                                      Head(calls))))
    /\ tmpl' = [tmpl EXCEPT !.elems = results'[Len(results')].elems]
    /\ calls' = Tail(calls)
    /\ UNCHANGED <<AllowMissingVariables, files, lexing>>

-----------------------------------------------------------------------------
(* Templates without tags                                                  *)

MaxText == 4
MaxContexts == 2

x == <<"x">>
y == <<"y">>

TextAlphabet == {"a", "{", "}", "<", "\n"}

SomeContexts == {Nil, Map(x :> String(<<"<">>)), Map(x :> Bool(TRUE))}

InitText ==
    InitWith(Strings(TextAlphabet, MaxText),
             {<<c>> : c \in Lists(SomeContexts, MaxContexts)},
             {TRUE})

SpecText == InitText /\ [][Next]_vars

RECURSIVE HasSubstring(_, _)
HasSubstring(s, sub) ==
    IF Len(s) < Len(sub) THEN FALSE
    ELSE IF SubSeq(s, 1, Len(sub)) = sub THEN TRUE
    ELSE HasSubstring(Tail(s), sub)

\* C1: a template that holds no "{{" parses, and every Render of it, with
\* any list of contexts (the empty list and nil included), returns the
\* template text itself.
RoundTripLiteralText ==
    ~HasSubstring(tmpl.data, defaultOtag) =>
        /\ tmpl.status \in {"run", "ok"}
        /\ \A i \in 1..Len(results) :
               results[i].status = "ok" /\ results[i].out = tmpl.data

RoundTripLiteralTextWitness ==
    /\ ~HasSubstring(tmpl.data, defaultOtag)
    /\ Contains(tmpl.data, "{") /\ Contains(tmpl.data, "<")
    /\ Len(results) = 1
    /\ results[1].context = <<>>
    /\ results[1].out = tmpl.data

-----------------------------------------------------------------------------
(* One variable tag between two runs of text                               *)

MaxAround == 1
MaxValue == 2

AroundAlphabet == {"<", "&"}
ValueAlphabet == {"&", "\"", "<", ">", "a"}

AroundTexts == Strings(AroundAlphabet, MaxAround)
Values == Strings(ValueAlphabet, MaxValue)

VarTag(name) == defaultOtag \o name \o defaultCtag
TripleTag(name) == defaultOtag \o <<"{">> \o name \o <<"}">> \o defaultCtag
AmpTag(name) == defaultOtag \o <<"&">> \o name \o defaultCtag

InitEscape ==
    InitWith({pre \o tag \o post : pre \in AroundTexts, post \in AroundTexts,
                                   tag \in {VarTag(x), TripleTag(x), AmpTag(x)}},
             {<< <<Map(x :> String(s))>> >> : s \in Values},
             {TRUE})

SpecEscape == InitEscape /\ [][Next]_vars

\* the HTML entity of each of & " < >
Entity(c) ==
    CASE c = "&" -> <<"&", "a", "m", "p", ";">>
      [] c = "\"" -> <<"&", "#", "3", "4", ";">>
      [] c = "<" -> <<"&", "l", "t", ";">>
      [] c = ">" -> <<"&", "g", "t", ";">>
      [] OTHER -> <<c>>

RECURSIVE Entities(_)
Entities(s) == IF s = <<>> THEN <<>> ELSE Entity(Head(s)) \o Entities(Tail(s))

\* the string a call's only context gives to x
ValueOfX(r) == r.context[1].m[x].s

\* C2: {{x}} writes the value of x with each of & " < > replaced by its
\* entity, {{{x}}} and {{&x}} write the value unchanged, and the text
\* before and after the tag is written as it stands in the template.
EscapedUnlessRaw ==
    \A i \in 1..Len(results) : \A pre \in AroundTexts, post \in AroundTexts :
        /\ tmpl.data = pre \o VarTag(x) \o post =>
               /\ results[i].status = "ok"
               /\ results[i].out = pre \o Entities(ValueOfX(results[i])) \o post
        /\ tmpl.data \in {pre \o TripleTag(x) \o post,
                          pre \o AmpTag(x) \o post} =>
               /\ results[i].status = "ok"
               /\ results[i].out = pre \o ValueOfX(results[i]) \o post

EscapedUnlessRawWitness ==
    /\ tmpl.data = <<"<">> \o VarTag(x) \o <<"&">>
    /\ Len(results) = 1
    /\ ValueOfX(results[1]) = <<"\"", ">">>
    /\ results[1].out = <<"<", "&", "#", "3", "4", ";", "&", "g", "t", ";", "&">>

-----------------------------------------------------------------------------
(* A section over a list                                                   *)

MaxItems == 3

l == <<"l">>
dot == <<".">>

OpenTag(name) == defaultOtag \o <<"#">> \o name \o defaultCtag
InvertedTag(name) == defaultOtag \o <<"^">> \o name \o defaultCtag
CloseTag(name) == defaultOtag \o <<"/">> \o name \o defaultCtag

Section(name, body) == OpenTag(name) \o body \o CloseTag(name)

\* ({{.}}) inside a section over l
EachInParentheses == Section(l, <<"(">> \o VarTag(dot) \o <<")">>)
\* {{x}} inside a section over l
EachX == Section(l, VarTag(x))

Letters == {String(<<"a">>), String(<<"b">>)}
Records == {Map(x :> c) : c \in Letters}

InitList ==
    \/ InitWith({pre \o EachInParentheses \o post :
                    pre \in AroundTexts, post \in AroundTexts},
                {<< <<Map(l :> Slice_(items))>> >> :
                    items \in Lists(Letters, MaxItems)},
                {TRUE})
    \/ InitWith({pre \o EachX \o post :
                    pre \in AroundTexts, post \in AroundTexts},
                {<< <<Map(l :> Slice_(items))>> >> :
                    items \in Lists(Records, MaxItems)},
                {TRUE})

SpecList == InitList /\ [][Next]_vars

\* the list a call's only context gives to l
ItemsOfL(r) == r.context[1].m[l].items

\* (s) for each string s of items, in order
RECURSIVE InParentheses(_)
InParentheses(items) ==
    IF items = <<>> THEN <<>>
    ELSE <<"(">> \o Head(items).s \o <<")">> \o InParentheses(Tail(items))

\* the x of each record of items, in order
RECURSIVE EachXOf(_)
EachXOf(items) ==
    IF items = <<>> THEN <<>>
    ELSE Head(items).m[x].s \o EachXOf(Tail(items))

\* C3: a section over a list of n elements writes its children n times, in
\* the order of the list, the i-th time with element i as the frame that
\* `.' and the names inside resolve against; over the empty list it writes
\* nothing.
SectionIteratesList ==
    \A i \in 1..Len(results) : \A pre \in AroundTexts, post \in AroundTexts :
        /\ tmpl.data = pre \o EachInParentheses \o post =>
               /\ results[i].status = "ok"
               /\ results[i].out =
                      pre \o InParentheses(ItemsOfL(results[i])) \o post
        /\ tmpl.data = pre \o EachX \o post =>
               /\ results[i].status = "ok"
               /\ results[i].out = pre \o EachXOf(ItemsOfL(results[i])) \o post

SectionIteratesListWitness ==
    /\ tmpl.data = <<"<">> \o EachInParentheses
    /\ Len(results) = 1
    /\ ItemsOfL(results[1]) = <<String(<<"a">>), String(<<"b">>), String(<<"a">>)>>
    /\ results[1].out = <<"<", "(", "a", ")", "(", "b", ")", "(", "a", ")">>

-----------------------------------------------------------------------------
(* An inverted section, at the top level and inside a section over a map   *)

m == <<"m">>
sec == <<"s">>

\* the maps that give `name' one of vals, or lack it
Optional(name, vals) == {<<>>} \cup {name :> v : v \in vals}

Outer == String(<<"o">>)
Inner == String(<<"i">>)

EmptyValues == {Nil, Bool(FALSE), Slice_(<<>>)}
NonEmptyValues == {Bool(TRUE), Slice_(<<Outer>>), Map(<<>>)}

\* {{^m}}a{{/m}}
InvertedA == InvertedTag(m) \o <<"a">> \o CloseTag(m)
\* {{#s}}{{^m}}{{x}}{{/m}}{{/s}}
InvertedInside == Section(sec, InvertedTag(m) \o VarTag(x) \o CloseTag(m))

\* root maps: x or not, m empty, non-empty or absent, s a map with x or not
InvertedRoots ==
    {Map(fx @@ fm @@ (sec :> Map(fs))) :
        fx \in Optional(x, {Outer}),
        fm \in Optional(m, EmptyValues \cup NonEmptyValues),
        fs \in Optional(x, {Inner})}

InitInverted ==
    \/ InitWith({pre \o InvertedA \o post :
                    pre \in AroundTexts, post \in AroundTexts},
                {<< <<Map(fm)>> >> :
                    fm \in Optional(m, EmptyValues \cup NonEmptyValues)},
                {TRUE})
    \/ InitWith({InvertedInside}, {<< <<c>> >> : c \in InvertedRoots}, {TRUE})

SpecInverted == InitInverted /\ [][Next]_vars

\* name resolves to an empty value, or to none, in the one frame of frames
ResolvesEmpty(frames, name) ==
    \/ name \notin DOMAIN frames[1].m
    \/ frames[1].m[name] \in EmptyValues

\* what {{x}} writes just inside {{#s}}, where the frames are s and the root
XInsideS(root) ==
    IF x \in DOMAIN root.m[sec].m THEN root.m[sec].m[x].s
    ELSE IF x \in DOMAIN root.m THEN root.m[x].s
    ELSE <<>>

\* C4: an inverted section writes its children once, every name in them
\* resolving as it does just outside the section, if and only if its name
\* resolves to an empty value; otherwise it writes nothing.
InvertedKeepsStack ==
    \A i \in 1..Len(results) :
        /\ \A pre \in AroundTexts, post \in AroundTexts :
               tmpl.data = pre \o InvertedA \o post =>
                   /\ results[i].status = "ok"
                   /\ results[i].out =
                          IF ResolvesEmpty(results[i].context, m)
                          THEN pre \o <<"a">> \o post
                          ELSE pre \o post
        /\ tmpl.data = InvertedInside =>
               /\ results[i].status = "ok"
               /\ results[i].out =
                      IF ResolvesEmpty(results[i].context, m)
                      THEN XInsideS(results[i].context[1])
                      ELSE <<>>

-----------------------------------------------------------------------------
(* A name inside nested sections over maps                                 *)

t == <<"t">>

Middle == String(<<"m">>)

\* {{#s}}{{x}}{{/s}}
XInS == Section(sec, VarTag(x))
\* {{#s}}{{#t}}{{x}}{{/t}}{{/s}}
XInTInS == Section(sec, Section(t, VarTag(x)))

\* root maps: x or not, s a map with x or not, t in s a map with x or not
NestedRoots ==
    {Map(fx @@ (sec :> Map(fs @@ (t :> Map(ft))))) :
        fx \in Optional(x, {Outer}),
        fs \in Optional(x, {Middle}),
        ft \in Optional(x, {Inner})}

InitNested ==
    InitWith({pre \o body \o post :
                 pre \in AroundTexts, post \in AroundTexts,
                 body \in {XInS, XInTInS}},
             {<< <<c>> >> : c \in NestedRoots},
             {TRUE})

SpecNested == InitNested /\ [][Next]_vars

\* the x of the first of maps that has one, "" when none has
RECURSIVE FirstX(_)
FirstX(maps) ==
    IF maps = <<>> THEN <<>>
    ELSE IF x \in DOMAIN Head(maps).m THEN Head(maps).m[x].s
    ELSE FirstX(Tail(maps))

\* C5: a name inside nested sections has the value the innermost frame that
\* defines it gives it: the frame of an inner section shadows every outer
\* one, and a name no inner frame defines is found in an outer one.
InnerFrameShadowsOuter ==
    \A i \in 1..Len(results) : \A pre \in AroundTexts, post \in AroundTexts :
        LET root == results[i].context[1]
            s1 == root.m[sec]
            t1 == s1.m[t]
        IN  /\ tmpl.data = pre \o XInS \o post =>
                   /\ results[i].status = "ok"
                   /\ results[i].out = pre \o FirstX(<<s1, root>>) \o post
            /\ tmpl.data = pre \o XInTInS \o post =>
                   /\ results[i].status = "ok"
                   /\ results[i].out = pre \o FirstX(<<t1, s1, root>>) \o post

InnerFrameShadowsOuterWitness ==
    /\ tmpl.data = XInTInS
    /\ Len(results) = 1
    /\ results[1].context =
           <<Map((x :> Outer) @@ (sec :> Map((x :> Middle) @@ (t :> Map(x :> Inner)))))>>
    /\ results[1].out = <<"i">>

-----------------------------------------------------------------------------
(* Dotted names                                                            *)

Deep == String(<<"d">>)

Dotted(a, b) == a \o <<".">> \o b

\* {{x.y}}, {{#s}}{{x.y}}{{/s}} and {{x.y.y}}
XY == VarTag(Dotted(x, y))
XYInS == Section(sec, XY)
XYY == VarTag(Dotted(x, Dotted(y, y)))

\* root maps: y or not, x a map with a string y or not, s a map with y or not
DottedRoots ==
    {Map(fy @@ (x :> Map(fxy)) @@ (sec :> Map(fsy))) :
        fy \in Optional(y, {Outer}),
        fxy \in Optional(y, {Inner}),
        fsy \in Optional(y, {Middle})}

\* root maps: y or not, x a map with a map y or not, that with y or not
DeepRoots ==
    {Map(fy @@ (x :> Map(fxy))) :
        fy \in Optional(y, {Outer}),
        fxy \in Optional(y, {Map(fxyy) : fxyy \in Optional(y, {Deep})})}

InitDotted ==
    \/ InitWith({pre \o body \o post :
                    pre \in AroundTexts, post \in AroundTexts,
                    body \in {XY, XYInS}},
                {<< <<c>> >> : c \in DottedRoots},
                {TRUE})
    \/ InitWith({pre \o XYY \o post :
                    pre \in AroundTexts, post \in AroundTexts},
                {<< <<c>> >> : c \in DeepRoots},
                {TRUE})

SpecDotted == InitDotted /\ [][Next]_vars

\* the string at the end of the path of names from the map v, "" when a
\* name of the path is absent from the map before it
RECURSIVE Along(_, _)
Along(v, path) ==
    IF path = <<>> THEN v.s
    ELSE IF Head(path) \in DOMAIN v.m THEN Along(v.m[Head(path)], Tail(path))
    ELSE <<>>

\* C6: of a dotted name only the head is looked for in the frames of the
\* stack; each later segment is looked for in the value of the segment
\* before it and nowhere else, so a segment absent there is a miss even
\* when an outer frame defines that name.
DottedRestInsideValue ==
    \A i \in 1..Len(results) : \A pre \in AroundTexts, post \in AroundTexts :
        /\ tmpl.data \in {pre \o XY \o post, pre \o XYInS \o post} =>
               /\ results[i].status = "ok"
               /\ results[i].out =
                      pre \o Along(results[i].context[1], <<x, y>>) \o post
        /\ tmpl.data = pre \o XYY \o post =>
               /\ results[i].status = "ok"
               /\ results[i].out =
                      pre \o Along(results[i].context[1], <<x, y, y>>) \o post

DottedRestInsideValueWitness ==
    /\ tmpl.data = XYInS
    /\ Len(results) = 1
    /\ results[1].context =
           <<Map((y :> Outer) @@ (x :> Map(<<>>)) @@ (sec :> Map(y :> Middle)))>>
    /\ results[1].out = <<>>

-----------------------------------------------------------------------------
(* Render with several contexts                                            *)

A == String(<<"a">>)
B == String(<<"b">>)

SuppliedContexts == {Map(x :> A), Map(x :> B), Map(y :> A)}

InitContexts ==
    InitWith({pre \o VarTag(x) \o post :
                 pre \in AroundTexts, post \in AroundTexts},
             {<<c>> : c \in Lists(SuppliedContexts, MaxContexts)},
             {TRUE})

SpecContexts == InitContexts /\ [][Next]_vars

\* C7 as stated: of the supplied contexts that define a name, the one
\* supplied last gives the value rendered.
LaterContextWins ==
    \A i \in 1..Len(results) : \A pre \in AroundTexts, post \in AroundTexts :
        tmpl.data = pre \o VarTag(x) \o post =>
            /\ results[i].status = "ok"
            /\ results[i].out =
                   pre \o FirstX(Reverse(results[i].context)) \o post

\* C7: of the supplied contexts that define a name, the one supplied first
\* gives the value rendered; the last-supplied context is the base layer,
\* searched last.
EarlierContextWins ==
    \A i \in 1..Len(results) : \A pre \in AroundTexts, post \in AroundTexts :
        tmpl.data = pre \o VarTag(x) \o post =>
            /\ results[i].status = "ok"
            /\ results[i].out = pre \o FirstX(results[i].context) \o post

EarlierContextWinsWitness ==
    /\ tmpl.data = VarTag(x)
    /\ Len(results) = 1
    /\ results[1].context = <<Map(x :> A), Map(x :> B)>>
    /\ results[1].out = <<"a">>

-----------------------------------------------------------------------------
(* Names found in no frame                                                 *)

\* contexts that define no y, and no y under x
ContextsWithoutY == {Map(<<>>), Map(x :> Map(<<>>)), Map(x :> Outer)}

\* y, y.x and x.y
MissedNames == {y, Dotted(y, x), Dotted(x, y)}

\* {{#y}}a{{/y}}
MissedSection == Section(y, <<"a">>)

InitMissing ==
    InitWith({pre \o body \o post :
                 pre \in AroundTexts, post \in AroundTexts,
                 body \in {VarTag(n) : n \in MissedNames \cup {x}}
                              \cup {MissedSection}},
             {<<c>> : c \in Lists(ContextsWithoutY, MaxContexts)},
             BOOLEAN)

SpecMissing == InitMissing /\ [][Next]_vars

MissedSectionIsSkipped ==
    \A i \in 1..Len(results) : \A pre \in AroundTexts, post \in AroundTexts :
        tmpl.data = pre \o MissedSection \o post =>
            /\ results[i].status = "ok"
            /\ results[i].out = pre \o post

-----------------------------------------------------------------------------
(* A tag on a line of its own                                              *)

\* the tags a line of its own is removed for: their text, what the template
\* holds before the first line and after the last for the tag to be
\* matched, and the rendering of those two parts
CommentTag == defaultOtag \o <<"!", "c">> \o defaultCtag
DelimiterTag == defaultOtag \o <<"=", "|", " ", "|", "=">> \o defaultCtag

StandaloneTags ==
    {[tag |-> CommentTag, opener |-> <<>>, closer |-> <<>>],
     [tag |-> DelimiterTag, opener |-> <<>>, closer |-> <<>>],
     [tag |-> OpenTag(sec), opener |-> <<>>, closer |-> CloseTag(sec)],
     [tag |-> InvertedTag(m), opener |-> <<>>, closer |-> CloseTag(m)],
     [tag |-> CloseTag(sec), opener |-> OpenTag(sec), closer |-> <<>>]}

\* the variable tags, and what each writes for x = "v"
VariableTags == {VarTag(x), TripleTag(x), AmpTag(x)}

Indents == {<<>>, <<" ">>, <<"\t">>}
Trails == {<<>>, <<" ">>}
\* the end of the tag's line and the line after it: "\n", "\r\n" or the
\* end of the input
Endings == {[eol |-> <<"\n">>, next |-> <<"b">>],
            [eol |-> <<"\r", "\n">>, next |-> <<"b">>],
            [eol |-> <<>>, next |-> <<>>]}
\* the lines before the tag's line
Befores == {<<>>, <<"a", "\n">>}

\* a template, and the output with the tag's line removed
RemovedLines ==
    {[data |-> k.opener \o <<"a", "\n">> \o before \o indent \o k.tag
                   \o trail \o e.eol \o e.next \o k.closer,
      out |-> <<"a", "\n">> \o before \o e.next] :
        k \in StandaloneTags, before \in Befores, indent \in Indents,
        trail \in Trails,
        e \in {e \in Endings : e.eol # <<>>}}
    \cup
    {[data |-> before \o indent \o k.tag \o trail,
      out |-> before] :
        k \in {k \in StandaloneTags : k.opener = <<>> /\ k.closer = <<>>},
        before \in Befores, indent \in Indents, trail \in Trails}

\* a template, and the output with the variable's line kept
KeptLines ==
    {[data |-> before \o indent \o tag \o trail \o e.eol \o e.next,
      out |-> before \o indent \o <<"v">> \o trail \o e.eol \o e.next] :
        tag \in VariableTags, before \in Befores, indent \in Indents,
        trail \in Trails, e \in Endings}

LineContext == Map((x :> String(<<"v">>)) @@ (sec :> Bool(TRUE)))

InitLines ==
    InitWith({c.data : c \in RemovedLines \cup KeptLines},
             {<< <<LineContext>> >>},
             {TRUE})

SpecLines == InitLines /\ [][Next]_vars

\* C8: the line of a comment, section-open, section-close or
\* delimiter-change tag that has only spaces and tabs around the tag is
\* left out of the output, indentation, trailing spaces and line ending
\* ("\n", "\r\n" or the end of the input) included; the line of a variable
\* tag is written with its indentation and line ending.
StandaloneLineRemoved ==
    \A i \in 1..Len(results) : \A c \in RemovedLines \cup KeptLines :
        tmpl.data = c.data =>
            results[i].status = "ok" /\ results[i].out = c.out

-----------------------------------------------------------------------------
(* Section tags, matched and not                                           *)

MaxTags == 4

\* {{#s}}, {{#t}}, {{^s}}, {{/s}}, {{/t}} and the line feed
NestingTokens == {OpenTag(sec), OpenTag(t), InvertedTag(sec), CloseTag(sec),
                  CloseTag(t), <<"\n">>}

RECURSIVE Flatten(_)
Flatten(tokens) ==
    IF tokens = <<>> THEN <<>> ELSE Head(tokens) \o Flatten(Tail(tokens))

InitNesting ==
    InitWith({Flatten(tokens) : tokens \in Strings(NestingTokens, MaxTags)},
             {<< <<Map(<<>>)>> >>},
             {TRUE})

SpecNesting == InitNesting /\ [][Next]_vars

\* the section tags of a template of NestingTokens, in order, each with its
\* sigil, its name and the line it stands on
RECURSIVE SectionTags(_, _)
SectionTags(data, line) ==
    IF data = <<>> THEN <<>>
    ELSE IF Head(data) = "\n" THEN SectionTags(Tail(data), line + 1)
    ELSE <<[sigil |-> data[3], name |-> <<data[4]>>, line |-> line]>>
             \o SectionTags(SubSeq(data, 7, Len(data)), line)

\* what becomes of a sequence of section tags read with the sections of
\* `opened' open, innermost last
RECURSIVE Nesting(_, _)
Nesting(tags, opened) ==
    IF tags = <<>>
    THEN IF opened = <<>> THEN [kind |-> "nested"]
         ELSE [kind |-> "unclosed", name |-> opened[Len(opened)].name,
               line |-> opened[Len(opened)].line]
    ELSE IF Head(tags).sigil \in {"#", "^"}
    THEN Nesting(Tail(tags), Append(opened, Head(tags)))
    ELSE IF opened = <<>>
    THEN [kind |-> "unmatched", line |-> Head(tags).line]
    ELSE IF opened[Len(opened)].name # Head(tags).name
    THEN [kind |-> "interleaved", name |-> Head(tags).name]
    ELSE Nesting(Tail(tags), SubSeq(opened, 1, Len(opened) - 1))

NestingOf(data) == Nesting(SectionTags(data, 1), <<>>)

\* the section elements of a parsed list, as a tree of names
RECURSIVE SectionTree(_)
SectionTree(elems) ==
    IF elems = <<>> THEN <<>>
    ELSE IF Head(elems).k = "section"
    THEN <<[name |-> Head(elems).name, inside |-> SectionTree(Head(elems).elems)]>>
             \o SectionTree(Tail(elems))
    ELSE SectionTree(Tail(elems))

\* the tree of names of a properly nested sequence of section tags: the
\* trees of the sections closed so far at each open level, outermost first
RECURSIVE TagTree(_, _, _)
TagTree(tags, opened, levels) ==
    IF tags = <<>> THEN levels[1]
    ELSE IF Head(tags).sigil \in {"#", "^"}
    THEN TagTree(Tail(tags), Append(opened, Head(tags).name),
                 Append(levels, <<>>))
    ELSE TagTree(Tail(tags), SubSeq(opened, 1, Len(opened) - 1),
                 [SubSeq(levels, 1, Len(levels) - 1)
                    EXCEPT ![Len(levels) - 1] =
                        Append(@, [name |-> opened[Len(opened)],
                                   inside |-> levels[Len(levels)]])])

\* C11: a close tag is accepted only for the innermost open section: the
\* parse succeeds exactly for the properly nested templates, whose tree of
\* sections is then the tree of the tags, and a close tag of another name
\* fails the parse with "interleaved closing tag" and that name.
ClosesInnermostOnly ==
    tmpl.status \in {"ok", "error"} =>
        /\ tmpl.status = "ok" <=> NestingOf(tmpl.data).kind = "nested"
        /\ tmpl.status = "ok" /\ results = <<>> =>
               SectionTree(tmpl.elems)
                   = TagTree(SectionTags(tmpl.data, 1), <<>>, << <<>> >>)
        /\ NestingOf(tmpl.data).kind = "interleaved" <=>
               /\ tmpl.status = "error"
               /\ tmpl.err.message = "interleaved closing tag"
        /\ NestingOf(tmpl.data).kind = "interleaved" =>
               tmpl.err.name = NestingOf(tmpl.data).name

ClosesInnermostOnlyWitness ==
    /\ tmpl.data = OpenTag(sec) \o OpenTag(t) \o CloseTag(sec) \o CloseTag(t)
    /\ tmpl.status = "error"
    /\ tmpl.err.message = "interleaved closing tag"
    /\ tmpl.err.name = sec

\* C12: the end of the input with a section open fails the parse with
\* "Section NAME has no closing tag", NAME the innermost open section and
\* the line the one that section was opened on; a close tag with no section
\* open fails it with "unmatched close tag".
UnclosedAndUnmatched ==
    tmpl.status \in {"ok", "error"} =>
        /\ NestingOf(tmpl.data).kind = "unclosed" =>
               /\ tmpl.status = "error"
               /\ tmpl.err.message = "Section has no closing tag"
               /\ tmpl.err.name = NestingOf(tmpl.data).name
               /\ tmpl.err.line = NestingOf(tmpl.data).line
        /\ NestingOf(tmpl.data).kind = "unmatched" =>
               /\ tmpl.status = "error"
               /\ tmpl.err.message = "unmatched close tag"

-----------------------------------------------------------------------------
(* Empty tags and tags that are not closed                                 *)

MaxBlank == 2

\* what stands before and after the tag: nothing, text, a section, a
\* section in a section, variables
Frames ==
    {[pre |-> <<>>, post |-> <<>>],
     [pre |-> <<"a", "\n">>, post |-> <<"b">>],
     [pre |-> OpenTag(sec), post |-> CloseTag(sec)],
     [pre |-> OpenTag(sec) \o InvertedTag(t),
      post |-> CloseTag(t) \o CloseTag(sec)],
     [pre |-> VarTag(x), post |-> VarTag(x)]}

\* {{ }} with nothing but white space inside
EmptyTags ==
    {defaultOtag \o blank \o defaultCtag :
        blank \in Strings({" ", "\t", "\n", "\r"}, MaxBlank)}

\* what follows an open delimiter that no close delimiter follows
UnclosedBodies ==
    {<<>>, <<"x">>, <<"}">>, <<" ">>, <<"#", "s">>, <<"{", "x", "}">>,
     <<"!", "c", "\n">>}

EmptyTagTemplates ==
    {f.pre \o tag \o f.post : f \in Frames, tag \in EmptyTags}

UnclosedTagTemplates ==
    {f.pre \o defaultOtag \o body : f \in Frames, body \in UnclosedBodies}

WellFormedTemplates ==
    {f.pre \o VarTag(x) \o f.post : f \in Frames}

InitMalformed ==
    InitWith(EmptyTagTemplates \cup UnclosedTagTemplates
                 \cup WellFormedTemplates,
             {<< <<Map(sec :> Bool(TRUE))>> >>},
             {TRUE})

SpecMalformed == InitMalformed /\ [][Next]_vars

\* C13: a tag with nothing but white space between its delimiters fails
\* the parse with "empty tag", at top level and inside sections; an open
\* delimiter that no close delimiter follows fails it with "unmatched open
\* tag".
EmptyAndUnclosedTags ==
    tmpl.status # "run" =>
        /\ tmpl.data \in EmptyTagTemplates =>
               tmpl.status = "error" /\ tmpl.err.message = "empty tag"
        /\ tmpl.data \in UnclosedTagTemplates =>
               tmpl.status = "error" /\ tmpl.err.message = "unmatched open tag"
        /\ tmpl.data \in WellFormedTemplates => tmpl.status = "ok"

EmptyAndUnclosedTagsWitness ==
    /\ tmpl.data = OpenTag(sec) \o defaultOtag \o <<" ">> \o defaultCtag
                       \o CloseTag(sec)
    /\ tmpl.status = "error"
    /\ tmpl.err.message = "empty tag"
    /\ tmpl.err.line = 1

-----------------------------------------------------------------------------
(* Every short input                                                       *)

MaxInput == 5

InputAlphabet == {"{", "}", "=", "!", "a", "\r"}

InitInputs ==
    InitWith(Strings(InputAlphabet, MaxInput), {<< <<Map(<<>>)>> >>}, {TRUE})

SpecInputs == InitInputs /\ [][Next]_vars

\* C14: ParseString ends with a Template or with a parse error that has a
\* line and a message, and never with an index or a slice out of range.
ParseReturns ==
    /\ tmpl.status \in {"run", "ok", "error"}
    /\ tmpl.status = "error" => tmpl.err.line >= 1 /\ tmpl.err.message # ""

-----------------------------------------------------------------------------
(* Several renders of one Template, some with a func for the section       *)

MaxCalls == 2

\* {{#s}}a{{/s}}
SectionA == Section(sec, <<"a">>)

\* a func that wraps the text of the section in < and >
Wrap == Func(1, TRUE, <<"<">>, <<">">>)

InitRepeated ==
    InitWith({pre \o SectionA \o post :
                 pre \in AroundTexts, post \in AroundTexts},
             Lists({<<Map(sec :> v)>> : v \in {Wrap, Bool(TRUE), Bool(FALSE)}},
                   MaxCalls),
             {TRUE})

SpecRepeated == InitRepeated /\ [][Next]_vars

\* C15: no render writes to the Template: after any renders its elements
\* are those parse returned, and what each render wrote is what a render
\* of the freshly parsed source with the same contexts writes.
RenderLeavesTemplate ==
    tmpl.status = "ok" =>
        /\ tmpl.elems = parseString(tmpl.data, defaultOtag, defaultCtag).elems
        /\ \A i \in 1..Len(results) :
               results[i].out =
                   Render(parseString(tmpl.data, defaultOtag, defaultCtag),
                          results[i].context).out

-----------------------------------------------------------------------------
(* Which section values are empty                                          *)

\* the values a section's name is given: the claimed empty ones and others
ClaimedEmpty ==
    {Nil, Bool(FALSE), Slice_(<<>>), String(<<>>), String(<<" ">>),
     String(<<"\n", "\t">>)}
ClaimedNonEmpty ==
    {Bool(TRUE), Slice_(<<A>>), String(<<"b">>), String(<<" ", "b">>),
     Int_(0), Int_(1), Map(<<>>)}

\* {{#m}}a{{/m}}
SectionOverM == Section(m, <<"a">>)

InitEmptiness ==
    InitWith({pre \o body \o post :
                 pre \in AroundTexts, post \in AroundTexts,
                 body \in {SectionOverM, InvertedA}},
             {<< <<Map(fm)>> >> :
                 fm \in Optional(m, ClaimedEmpty \cup ClaimedNonEmpty)},
             {TRUE})

SpecEmptiness == InitEmptiness /\ [][Next]_vars

\* m is absent from the map, or has one of the claimed empty values
IsClaimedEmpty(frame) ==
    m \notin DOMAIN frame.m \/ frame.m[m] \in ClaimedEmpty

\* C16: a section's value is empty, so that {{#m}} writes nothing and
\* {{^m}} writes its body, exactly when it is absent, nil, false, a list
\* of no elements or a string of nothing but white space; for every other
\* value, 0 and a string with a letter included, {{#m}} writes its body
\* and {{^m}} nothing.
EmptyValuesAreFalsey ==
    \A i \in 1..Len(results) : \A pre \in AroundTexts, post \in AroundTexts :
        /\ tmpl.data = pre \o SectionOverM \o post =>
               /\ results[i].status = "ok"
               /\ results[i].out =
                      IF IsClaimedEmpty(results[i].context[1])
                      THEN pre \o post ELSE pre \o <<"a">> \o post
        /\ tmpl.data = pre \o InvertedA \o post =>
               /\ results[i].status = "ok"
               /\ results[i].out =
                      IF IsClaimedEmpty(results[i].context[1])
                      THEN pre \o <<"a">> \o post ELSE pre \o post

-----------------------------------------------------------------------------
(* Methods of a frame                                                      *)

Returned_ == String(<<"r">>)
Keyed == String(<<"k">>)

\* a frame that is a struct with the field y or a map with the key x, whose
\* type declares the method x with a value receiver, with a pointer
\* receiver, or not at all, handed to Render as a value or by pointer; a
\* second context that has x may follow it.  `out' is what {{x}} writes.
MethodsOf(receiver, declared) ==
    IF receiver = declared THEN x :> Returned_ ELSE <<>>

FramesOf(receiver) ==
    {Struct(y :> Keyed,
            MethodsOf(receiver, "value"), MethodsOf(receiver, "pointer")),
     NamedMap(x :> Keyed,
              MethodsOf(receiver, "value"), MethodsOf(receiver, "pointer"))}

MethodCasesOf(receiver) ==
    {[context |->
          <<(IF held = "pointer" THEN Ptr(frame) ELSE frame)>> \o outer,
      out |->
          IF receiver = "value" \/ (receiver = "pointer" /\ held = "pointer")
          THEN <<"r">>
          ELSE IF frame.k = "map" THEN <<"k">>
          ELSE IF outer # <<>> THEN <<"o">>
          ELSE <<>>] :
        held \in {"value", "pointer"},
        outer \in {<<>>, <<Map(x :> Outer)>>},
        frame \in FramesOf(receiver)}

MethodCases ==
    UNION {MethodCasesOf(receiver) : receiver \in {"none", "value", "pointer"}}

InitMethods ==
    InitWith({pre \o VarTag(x) \o post :
                 pre \in AroundTexts, post \in AroundTexts},
             {<<c.context>> : c \in MethodCases},
             {TRUE})

SpecMethods == InitMethods /\ [][Next]_vars

\* C17: in a frame whose type has a method of the name looked up, the
\* method is called and what it returns is the value, a key of that name in
\* the same frame notwithstanding; a method with a pointer receiver is not
\* found in a frame held by value, and the lookup goes on to the key of the
\* frame and to the next frame as if there were no such method.
MethodBeforeKey ==
    \A i \in 1..Len(results) : \A pre \in AroundTexts, post \in AroundTexts :
        \A c \in MethodCases :
            (tmpl.data = pre \o VarTag(x) \o post
                 /\ results[i].context = c.context) =>
                /\ results[i].status = "ok"
                /\ results[i].out = pre \o c.out \o post

MethodBeforeKeyWitness ==
    /\ tmpl.data = VarTag(x)
    /\ Len(results) = 1
    /\ results[1].context =
           <<Struct(y :> Keyed, <<>>, x :> Returned_), Map(x :> Outer)>>
    /\ results[1].out = <<"o">>

-----------------------------------------------------------------------------
(* Layouts                                                                 *)

MaxPieces == 2

\* what a layout is put together from: text, the content escaped and
\* unescaped, and a name of the caller's contexts
LayoutPieces ==
    {<<"a">>, VarTag(contentName), TripleTag(contentName), VarTag(x)}

Layouts == {Flatten(pieces) : pieces \in Strings(LayoutPieces, MaxPieces)}

\* the template rendered into the layout: it writes a character that is
\* escaped, x, or the caller's own content
Contents ==
    {<<"<">>, VarTag(x), VarTag(contentName), <<"a">> \o VarTag(x)}

LayoutContexts == {Nil, Map(x :> A), Map(contentName :> B),
                   Map((x :> B) @@ (contentName :> A))}

NonEmptyLists(contexts, n) == Lists(contexts, n) \ {<<>>}

InitLayout ==
    InitWith(Contents,
             {<<c>> : c \in NonEmptyLists(LayoutContexts, MaxContexts)},
             {TRUE})

NextLayout == ParseStep \/ RenderInLayoutCall(Layouts)

SpecLayout == InitLayout /\ [][NextLayout]_vars

\* what {{x}} alone writes with the caller's contexts
XAlone(context) ==
    Render(parseString(VarTag(x), defaultOtag, defaultCtag), context).out

\* what a piece of the layout writes, S being the rendered template
PieceWrites(piece, S, context) ==
    CASE piece = VarTag(contentName) -> HTMLEscape(S)
      [] piece = TripleTag(contentName) -> S
      [] piece = VarTag(x) -> XAlone(context)
      [] OTHER -> piece

RECURSIVE PiecesWrite(_, _, _)
PiecesWrite(pieces, S, context) ==
    IF pieces = <<>> THEN <<>>
    ELSE PieceWrites(Head(pieces), S, context)
             \o PiecesWrite(Tail(pieces), S, context)

\* C18: RenderInLayout writes the layout with `content' standing for the
\* whole rendering S of the template against the caller's contexts, also
\* when a caller's context has a key `content', and with every other name
\* of the layout resolved in the caller's contexts as the template
\* resolves it.
LayoutHoldsContent ==
    \A i \in 1..Len(results) : \A pieces \in Strings(LayoutPieces, MaxPieces) :
        results[i].layout = Flatten(pieces) =>
            /\ results[i].status = "ok"
            /\ results[i].content = Render(tmpl, results[i].context).out
            /\ results[i].out =
                   PiecesWrite(pieces, results[i].content, results[i].context)

LayoutHoldsContentWitness ==
    /\ tmpl.data = <<"a">> \o VarTag(x)
    /\ Len(results) = 1
    /\ results[1].context = <<Map((x :> B) @@ (contentName :> A))>>
    /\ results[1].layout = VarTag(x) \o VarTag(contentName)
    /\ results[1].out = <<"b", "a", "b">>

-----------------------------------------------------------------------------
(* Partials and their indentation                                          *)

MaxSites == 2

p == <<"p">>

PartialTag(name) == defaultOtag \o <<">">> \o name \o defaultCtag

\* a partial tag alone on its line after one space, alone on its line at
\* the start of it, and after text on its line
IndentedSite == <<" ">> \o PartialTag(p) \o <<"\n">>
UnindentedSite == PartialTag(p) \o <<"\n">>
InlineSite == <<"|">> \o PartialTag(p) \o <<"\n">>

Sites == {IndentedSite, UnindentedSite, InlineSite}

SiteLists == Strings(Sites, MaxSites) \ {<<>>}

\* the file p: lines of text, a variable on the first line, and lines
\* inside a section
PartialBodies ==
    {<<"a", "\n", "b">>,
     <<"a", "\n">>,
     VarTag(x) \o <<"\n", "b">>,
     Section(sec, <<"a", "\n", "b">>)}

PartialContext == Map((x :> String(<<"c">>)) @@ (sec :> Bool(TRUE)))

InitPartials ==
    InitWithFiles({Flatten(sites) : sites \in SiteLists},
                  {<< <<PartialContext>> >>},
                  {TRUE},
                  {p :> body : body \in PartialBodies})

SpecPartials == InitPartials /\ [][Next]_vars

\* s with the indent before every line of it
RECURSIVE IndentLines(_, _, _)
IndentLines(indent, s, i) ==
    IF i > Len(s) THEN <<>>
    ELSE (IF i = 1 \/ s[i - 1] = "\n" THEN indent ELSE <<>>)
         \o <<s[i]>> \o IndentLines(indent, s, i + 1)

\* what the file p writes with the context when rendered alone
PartialAlone(context) ==
    Render(parseString(files[p], defaultOtag, defaultCtag), context).out

SiteWrites(site, P) ==
    CASE site = IndentedSite -> IndentLines(<<" ">>, P, 1)
      [] site = UnindentedSite -> P
      [] site = InlineSite -> <<"|">> \o P \o <<"\n">>

RECURSIVE SitesWrite(_, _)
SitesWrite(sites, P) ==
    IF sites = <<>> THEN <<>>
    ELSE SiteWrites(Head(sites), P) \o SitesWrite(Tail(sites), P)

\* C19: each partial tag alone on its line writes the partial with the
\* whitespace before the tag in front of every line of it, the lines of the
\* partial's sections too, whatever the other tags of the same partial are
\* indented by; a tag after text on its line writes the partial as it is.
PartialIndentedAtEachSite ==
    \A i \in 1..Len(results) : \A sites \in SiteLists :
        tmpl.data = Flatten(sites) =>
            /\ results[i].status = "ok"
            /\ results[i].out =
                   SitesWrite(sites, PartialAlone(results[i].context))

-----------------------------------------------------------------------------
(* Partials that are not found                                             *)

MaxGets == 1

q == <<"q">>
d == <<"d">>
txtExt == <<".", "t", "x", "t">>

\* no file; files that p does not name, one of them including p
FilesWithoutP ==
    {<<>>, q :> <<"a">>, q :> PartialTag(p), Join(d, q \o txtExt) :> <<"a">>}

\* the tag of p in the template, in a section of it, and in the file q
MissingSites == {PartialTag(p), Section(sec, PartialTag(p)), PartialTag(q)}

Providers ==
    {FileProvider(nilSlice, nilSlice),
     FileProvider(sliceOf(<<d>>), sliceOf(<<txtExt>>)),
     FileProvider(sliceOf(<< <<>>, d >>), nilSlice),
     StaticProvider(<<>>),
     StaticProvider(q :> <<"a">>)}

InitNotFound ==
    InitWithFiles({pre \o site \o post : pre \in AroundTexts,
                                         post \in AroundTexts,
                                         site \in MissingSites},
                  {<< <<Map(sec :> Bool(TRUE))>> >>},
                  {TRUE},
                  FilesWithoutP)

NextNotFound == ParseStep \/ RenderCall \/ GetCall(Providers, {p, q}, MaxGets)

SpecNotFound == InitNotFound /\ [][NextNotFound]_vars

\* no file or entry of the provider goes by the name
NotFoundBy(provider, name) ==
    IF provider.k = "static" THEN name \notin DOMAIN provider.partials
    ELSE \A i \in 1..Len(pathsOf(provider)), j \in 1..Len(extsOf(provider)) :
             Join(pathsOf(provider)[i], name \o extsOf(provider)[j])
                 \notin DOMAIN files

\* what the file q writes in place of its tag
QWrites ==
    IF q \in DOMAIN files /\ files[q] = <<"a">> THEN <<"a">> ELSE <<>>

\* C20: a partial tag of a name that no file goes by writes nothing and
\* the template around it is written as it stands, without an error; Get
\* of a FileProvider and of a StaticProvider returns, for a name it does
\* not find, a Template that writes nothing, and no error.
NotFoundIsEmpty ==
    /\ tmpl.status # "error"
    /\ \A i \in 1..Len(results) :
        IF "provider" \in DOMAIN results[i]
        THEN NotFoundBy(results[i].provider, results[i].name) =>
                 /\ results[i].template.status = "ok"
                 /\ Render(results[i].template, <<>>).status = "ok"
                 /\ Render(results[i].template, <<>>).out = <<>>
        ELSE \A pre \in AroundTexts, post \in AroundTexts :
                 /\ tmpl.data \in {pre \o PartialTag(p) \o post,
                                   pre \o Section(sec, PartialTag(p)) \o post}
                        => /\ results[i].status = "ok"
                           /\ results[i].out = pre \o post
                 /\ tmpl.data = pre \o PartialTag(q) \o post
                        => /\ results[i].status = "ok"
                           /\ results[i].out = pre \o QWrites \o post

NotFoundIsEmptyWitness ==
    /\ tmpl.data = <<"<">> \o PartialTag(p) \o <<"&">>
    /\ files = (q :> <<"a">>)
    /\ Len(results) = 2
    /\ results[1].out = <<"<", "&">>
    /\ results[2].provider = FileProvider(nilSlice, nilSlice)
    /\ results[2].name = p
    /\ results[2].template.status = "ok"

-----------------------------------------------------------------------------
(* Changed delimiters                                                      *)

\* {{=[ ]=}} and [={{ }}=]
ToBrackets == defaultOtag \o <<"=", "[", " ", "]", "=">> \o defaultCtag
ToBraces == <<"[", "=">> \o defaultOtag \o <<" ">> \o defaultCtag \o <<"=", "]">>

BracketTag(name) == <<"[">> \o name \o <<"]">>
BracketSection(name, body) ==
    <<"[", "#">> \o name \o <<"]">> \o body \o <<"[", "/">> \o name \o <<"]">>

\* what follows {{=[ ]=}}: a tag in the new delimiters, one in the old,
\* and each of them inside a section
BracketPieces ==
    {BracketTag(x), VarTag(x),
     BracketSection(sec, BracketTag(x)), BracketSection(sec, VarTag(x))}

\* what follows [={{ }}=]
BracePieces == {BracketTag(x), VarTag(x)}

\* the parts of a template: a tag before the change or none, the pieces
\* after it, and the pieces after the change back when there is one
DelimiterParts ==
    [before : {<<>>, VarTag(x)},
     brackets : Strings(BracketPieces, MaxPieces),
     back : BOOLEAN,
     braces : Strings(BracePieces, 1)]
        \ {parts \in [before : {<<>>, VarTag(x)},
                      brackets : Strings(BracketPieces, MaxPieces),
                      back : BOOLEAN,
                      braces : Strings(BracePieces, 1)] :
               ~parts.back /\ parts.braces # <<>>}

DelimiterTemplate(parts) ==
    parts.before \o ToBrackets \o Flatten(parts.brackets)
        \o (IF parts.back THEN ToBraces \o Flatten(parts.braces) ELSE <<>>)

\* tags that start with = and do not end with it
InvalidMetaTags ==
    {defaultOtag \o <<"=", "x">> \o defaultCtag,
     defaultOtag \o <<"=", "[", " ", "]">> \o defaultCtag,
     Section(sec, defaultOtag \o <<"=", "x">> \o defaultCtag),
     ToBrackets \o <<"[", "=", "x", "]">>}

DelimiterContext == Map((x :> String(<<"v">>)) @@ (sec :> Bool(TRUE)))

InitDelimiters ==
    InitWith({DelimiterTemplate(parts) : parts \in DelimiterParts}
                 \cup InvalidMetaTags,
             {<< <<DelimiterContext>> >>},
             {TRUE})

SpecDelimiters == InitDelimiters /\ [][Next]_vars

\* what a piece writes between [ and ], and between {{ and }}
InBrackets(piece) ==
    CASE piece \in {BracketTag(x), BracketSection(sec, BracketTag(x))} ->
           <<"v">>
      [] OTHER -> VarTag(x)

InBraces(piece) == IF piece = VarTag(x) THEN <<"v">> ELSE BracketTag(x)

RECURSIVE PiecesInBrackets(_)
PiecesInBrackets(pieces) ==
    IF pieces = <<>> THEN <<>>
    ELSE InBrackets(Head(pieces)) \o PiecesInBrackets(Tail(pieces))

RECURSIVE PiecesInBraces(_)
PiecesInBraces(pieces) ==
    IF pieces = <<>> THEN <<>>
    ELSE InBraces(Head(pieces)) \o PiecesInBraces(Tail(pieces))

DelimitersWrite(parts) ==
    (IF parts.before = <<>> THEN <<>> ELSE <<"v">>)
        \o PiecesInBrackets(parts.brackets)
        \o (IF parts.back THEN PiecesInBraces(parts.braces) ELSE <<>>)

\* C21: after {{=[ ]=}} the tags of the template, inside sections and
\* after them, are those between [ and ], and {{x}} is written as text,
\* until [={{ }}=] makes it the other way round; a tag that starts with =
\* and does not end with = fails the parse with "Invalid meta tag".
DelimitersHoldUntilChanged ==
    /\ \A parts \in DelimiterParts :
           tmpl.data = DelimiterTemplate(parts) =>
               /\ tmpl.status \in {"run", "ok"}
               /\ \A i \in 1..Len(results) :
                      /\ results[i].status = "ok"
                      /\ results[i].out = DelimitersWrite(parts)
    /\ (tmpl.data \in InvalidMetaTags /\ tmpl.status # "run") =>
           /\ tmpl.status = "error"
           /\ tmpl.err.message = "Invalid meta tag"

DelimitersHoldUntilChangedWitness ==
    /\ tmpl.data = ToBrackets \o VarTag(x)
                       \o BracketSection(sec, BracketTag(x))
                       \o ToBraces \o VarTag(x)
    /\ Len(results) = 1
    /\ results[1].out = VarTag(x) \o <<"v", "v">>

-----------------------------------------------------------------------------
(* The context chain that the elements of a section are rendered with      *)

\* a{{#s}}b{{#t}}d{{/t}}b{{/s}}c, and the same with {{^m}} outside
ChainTemplates ==
    {<<"a">> \o open \o <<"b">> \o Section(t, <<"d">>) \o <<"b">>
         \o close \o <<"c">> :
        <<open, close>> \in {<<OpenTag(sec), CloseTag(sec)>>,
                             <<InvertedTag(m), CloseTag(m)>>}}

\* what t is inside: a bool, a list, a map, or not there
InnerFrames ==
    {Map(<<>>), Map(t :> Bool(TRUE)), Map(t :> Bool(FALSE)),
     Map(t :> Slice_(<<Outer, Inner>>)), Map(t :> Map(x :> Inner))}

\* what s is: a bool, a map, a list of one or two maps
ChainRoots ==
    {Map((sec :> Bool(TRUE)) @@ (t :> Slice_(<<Outer>>)))}
        \cup {Map(sec :> f) : f \in InnerFrames}
        \cup {Map(sec :> Slice_(<<f>>)) : f \in InnerFrames}
        \cup {Map(sec :> Slice_(<<f, Map(t :> Bool(TRUE))>>)) :
                 f \in InnerFrames}

InitChain ==
    InitWith(ChainTemplates,
             {<<c>> : c \in NonEmptyLists(ChainRoots, 1)
                        \cup {<<r, Map(x :> Outer)>> : r \in ChainRoots}},
             {TRUE})

SpecChain == InitChain /\ [][Next]_vars

IsText(call, text) == call.element.k = "text" /\ call.element.text = text

IsSectionT(call) == call.element.k = "section" /\ call.element.name = t

\* the first call after k that is for the text b
NextB(seen, k) ==
    CHOOSE j \in (k + 1)..Len(seen) :
        /\ IsText(seen[j], <<"b">>)
        /\ \A i \in (k + 1)..(j - 1) : ~IsText(seen[i], <<"b">>)

OneFrameMore(inside, outside) ==
    /\ Len(inside) = Len(outside) + 1
    /\ Tail(inside) = outside

\* the calls of one Render, contextChain being what Render started with
ChainGrowsByOne(seen, contextChain) ==
    \A k \in 1..Len(seen) :
        /\ (IsText(seen[k], <<"a">>) \/ IsText(seen[k], <<"c">>)
              \/ (seen[k].element.k = "section" /\ ~IsSectionT(seen[k])))
               => seen[k].contextChain = contextChain
        /\ IsText(seen[k], <<"b">>)
               => OneFrameMore(seen[k].contextChain, contextChain)
        /\ IsSectionT(seen[k])
               => /\ IsText(seen[k - 1], <<"b">>)
                  /\ seen[k - 1].contextChain = seen[k].contextChain
                  /\ \E j \in (k + 1)..Len(seen) : IsText(seen[j], <<"b">>)
                  /\ seen[NextB(seen, k)].contextChain = seen[k].contextChain
                  /\ \A j \in (k + 1)..(NextB(seen, k) - 1) :
                         /\ IsText(seen[j], <<"d">>)
                         /\ OneFrameMore(seen[j].contextChain,
                                         seen[k].contextChain)

\* C22: the elements of a section are rendered with the chain the section
\* was rendered with and one frame before it, in every iteration; the
\* elements after the section are rendered with the chain of the elements
\* before it, frame for frame.
SectionPushesOneFrame ==
    \A i \in 1..Len(results) :
        /\ results[i].status = "ok"
        /\ ChainGrowsByOne(results[i].seen, contextChainOf(results[i].context))

SectionPushesOneFrameWitness ==
    /\ Len(results) = 1
    /\ results[1].context =
           <<Map(sec :> Slice_(<<Map(t :> Slice_(<<Outer, Inner>>)),
                                 Map(t :> Bool(TRUE))>>)),
             Map(x :> Outer)>>
    /\ results[1].out = <<"a", "b", "d", "d", "b", "b", "d", "b", "c">>
    /\ \E k \in 1..Len(results[1].seen) :
           /\ IsText(results[1].seen[k], <<"d">>)
           /\ Len(results[1].seen[k].contextChain) = 4

-----------------------------------------------------------------------------
(* Sections over a value that is no list, map, struct or func              *)

flag == <<"b">>

\* {{x}}{{#b}}{{x}}{{/b}}: x outside the section and inside it
XTwice == VarTag(x) \o Section(flag, VarTag(x))

\* at the top, inside {{#s}}, and inside {{#t}} inside {{#s}}
ScalarTemplates ==
    {XTwice, Section(sec, XTwice), Section(sec, Section(t, XTwice))}

Scalars == {Bool(TRUE), String(<<"y">>), Int_(1)}

\* b at the root; x at the root, in s, in t, or nowhere
ScalarRoots ==
    {Map((flag :> v) @@ xs @@ (sec :> Map(xi @@ (t :> Map(xt))))) :
        v \in Scalars,
        xs \in {<<>>, x :> Outer},
        xi \in {<<>>, x :> Middle},
        xt \in {<<>>, x :> Inner}}

InitScalar ==
    InitWith(ScalarTemplates, {<< <<r>> >> : r \in ScalarRoots}, {TRUE})

SpecScalar == InitScalar /\ [][Next]_vars

\* C23: inside a section over true, a string or a number, x is what it is
\* right before the section, at the top of the template and inside other
\* sections.
ScalarSectionKeepsTop ==
    \A i \in 1..Len(results) :
        /\ results[i].status = "ok"
        /\ \E half \in {<<>>, <<"o">>, <<"m">>, <<"i">>} :
               results[i].out = half \o half

-----------------------------------------------------------------------------
(* The raw body of a section                                               *)

\* {{ x }}
PaddedTag(name) == defaultOtag \o <<" ">> \o name \o <<" ">> \o defaultCtag

\* what stands between {{#s}} and {{/s}}
BodyPieces ==
    {<<"a">>, VarTag(x), PaddedTag(x), Section(t, <<"a">>),
     CommentTag}

Bodies ==
    {Flatten(pieces) : pieces \in Strings(BodyPieces, MaxPieces)}

\* {{#s}}{{=[ ]=}}[/s]
BodyOfBrackets == OpenTag(sec) \o ToBrackets \o BracketTag(<<"/">> \o sec)

InitRawBody ==
    InitWith({Section(sec, body) : body \in Bodies} \cup {BodyOfBrackets},
             {<< <<Map(sec :> Bool(TRUE))>> >>},
             {TRUE})

SpecRawBody == InitRawBody /\ [][Next]_vars

\* the sections of the parsed Template that go by the name
SectionsNamed(name) ==
    {tmpl.elems[i] : i \in {j \in 1..Len(tmpl.elems) :
                               /\ tmpl.elems[j].k = "section"
                               /\ tmpl.elems[j].name = name}}

\* C24: once the parse has succeeded, the rawBody of a section is the text
\* of the template between its open tag and its close tag, with the
\* sections, the comments, the delimiter changes and the blanks of the
\* tags that are in it.
RawBodyIsSource ==
    tmpl.status = "ok" =>
        /\ \A body \in Bodies :
               tmpl.data = Section(sec, body) =>
                   /\ SectionsNamed(sec) # {}
                   /\ \A section \in SectionsNamed(sec) :
                          section.rawBody = body
        /\ tmpl.data = BodyOfBrackets =>
               \A section \in SectionsNamed(sec) :
                   section.rawBody = ToBrackets

-----------------------------------------------------------------------------
(* The two tokens of a delimiter change                                    *)

at == <<"@">>

Blanks == Strings({" ", "\t"}, MaxBlank) \ {<<>>}

\* {{=@ @=}} with blanks before, between and after the two tokens
ToAt(before, between, after) ==
    defaultOtag \o <<"=">> \o before \o at \o between \o at \o after
        \o <<"=">> \o defaultCtag

AtTag(name) == at \o name \o at

\* the change, then @x@; the same inside {{#s}} closed by @/s@
AtTemplates ==
    {ToAt(before, between, after) \o AtTag(x) :
        before \in {<<>>, <<" ">>}, after \in {<<>>, <<" ">>},
        between \in Blanks}
    \cup
    {OpenTag(sec) \o ToAt(before, between, after) \o AtTag(x)
         \o AtTag(<<"/">> \o sec) :
        before \in {<<>>, <<" ">>}, after \in {<<>>, <<" ">>},
        between \in Blanks}

InitTokens ==
    InitWith(AtTemplates,
             {<< <<Map((x :> String(<<"v">>)) @@ (sec :> Bool(TRUE)))>> >>},
             {TRUE})

SpecTokens == InitTokens /\ [][Next]_vars

\* C25: the delimiters after {{=@ @=}}, whatever blanks separate the two
\* tokens, are @ and @, so that @x@ after it is a tag; at no point of the
\* parse is a delimiter the empty string.
DelimitersAreTheTokens ==
    /\ Len(tmpl.otag) > 0
    /\ Len(tmpl.ctag) > 0
    /\ tmpl.status \in {"run", "ok"}
    /\ tmpl.status = "ok" => tmpl.otag = at /\ tmpl.ctag = at
    /\ \A i \in 1..Len(results) :
           results[i].status = "ok" /\ results[i].out = <<"v">>

-----------------------------------------------------------------------------
(* The line counter                                                        *)

EmptyTag == defaultOtag \o defaultCtag

\* line feeds, comments and section tags, and tags that fail
LineTokens ==
    {<<"\n">>, CommentTag, OpenTag(sec), CloseTag(sec),
     EmptyTag, defaultOtag \o <<"=", "x">> \o defaultCtag}

InitCounted ==
    InitWith({Flatten(tokens) : tokens \in Strings(LineTokens, MaxTags)},
             {<< <<Map(<<>>)>> >>},
             {TRUE})

SpecCounted == InitCounted /\ [][Next]_vars

\* the number of newlines in data[0:p]
RECURSIVE Newlines(_, _)
Newlines(data, p_) ==
    IF p_ = 0 THEN 0
    ELSE Newlines(data, p_ - 1) + (IF data[p_] = "\n" THEN 1 ELSE 0)

\* C26: at the start of every iteration of the parse loop, in a section or
\* not, curline is 1 plus the number of newlines before the cursor, and
\* the line of an "empty tag", "unmatched open tag", "unmatched close
\* tag", "interleaved closing tag" or "Invalid meta tag" error is the line
\* the tag is on.
LineCounterIsTrue ==
    /\ tmpl.status = "run" =>
           tmpl.curline = 1 + Newlines(tmpl.data, tmpl.p)
    /\ (tmpl.status = "error"
          /\ tmpl.err.message \in {"empty tag", "unmatched open tag",
                                   "unmatched close tag",
                                   "interleaved closing tag",
                                   "Invalid meta tag"}) =>
           tmpl.err.line = 1 + Newlines(tmpl.data, tmpl.p)

-----------------------------------------------------------------------------
(* The elements that a standalone tag leaves alone                         *)

\* a tag on a line of its own inside {{#s}}, after text that ends in a blank
OwnLineIn(before, indent, tag) ==
    before \o OpenTag(sec) \o <<"\n">> \o indent \o tag \o <<"\n">>
        \o CloseTag(sec)

\* the same one section deeper
OwnLineInTwo(before, indent, tag) ==
    before \o OpenTag(sec) \o <<"y", " ">> \o OpenTag(t) \o <<"\n">>
        \o indent \o tag \o <<"\n">> \o CloseTag(t) \o CloseTag(sec)

OwnLineTags == {PartialTag(p), CommentTag, VarTag(x), ToBrackets \o ToBraces}

OwnLineTemplates ==
    {OwnLineIn(before, indent, tag) :
        before \in {<<"x">>, <<"x", " ">>}, indent \in {<<>>, <<" ">>},
        tag \in OwnLineTags}
    \cup
    {OwnLineInTwo(before, indent, tag) :
        before \in {<<"x">>, <<"x", " ">>}, indent \in {<<>>, <<" ">>},
        tag \in OwnLineTags}

InitOwnLine ==
    InitWithFiles(OwnLineTemplates,
                  {<< <<Map(sec :> Map(t :> Bool(TRUE)))>> >>},
                  {TRUE},
                  {<<>>, p :> <<"a">>})

SpecOwnLine == InitOwnLine /\ [][Next]_vars

\* the elements of `old' are in `new' as they were
NodesKept(old, new) ==
    /\ Len(new) >= Len(old)
    /\ \A j \in 1..Len(old) : new[j] = old[j]

\* C27: an iteration of the loop of parseSection, whatever tag it reads,
\* the partial tag on a line of its own too, leaves the elements of the
\* Template and of every enclosing section as they are; the text it
\* strips is the one it has just appended to its own section.
StandaloneKeepsEnclosing ==
    [][(tmpl.status = "run" /\ Len(tmpl.open) > 0 /\ tmpl'.status # "panic")
           => /\ NodesKept(tmpl.elems, tmpl'.elems)
              /\ \A k \in 1..(Len(tmpl.open) - 1) :
                     k <= Len(tmpl'.open) =>
                         NodesKept(tmpl.open[k].elems, tmpl'.open[k].elems)
      ]_vars


(***************************************************************************)
(* C28: partial files that include themselves.                             *)
(***************************************************************************)

\* the name of the file of p, as a tag may give it
pm == p \o mustacheExt

SelfTags == {PartialTag(p), PartialTag(pm), PartialTag(q)}

\* a file that includes a partial after a text, or in a section
SelfBodies ==
    {<<"a">> \o tag : tag \in SelfTags}
    \cup {OpenTag(sec) \o tag \o CloseTag(sec) : tag \in SelfTags}

\* one file under the name p or p.mustache, or the two files p and q
SelfFiles ==
    {name :> body : name \in {p, pm}, body \in SelfBodies}
    \cup {(p :> body) @@ (q :> other) :
              body \in SelfBodies, other \in SelfBodies}

\* the partial tag alone, or on a line of its own after a space
SelfTemplates ==
    {lead \o tag \o tail :
        lead \in {<<>>, <<" ">>}, tag \in {PartialTag(p), PartialTag(pm)},
        tail \in {<<>>, <<"\n">>}}

InitSelf ==
    InitWithFiles(SelfTemplates,
                  {<< <<Map(sec :> Bool(FALSE))>> >>},
                  {TRUE},
                  SelfFiles)

SpecSelf == InitSelf /\ [][Next]_vars

\* C28: parsing terminates: the cursor stays within 0..len(input), and a
\* partial file that includes itself, directly or through another file,
\* under whatever name the tag gives it, is not parsed again while it is
\* being parsed, so that the parse returns.
PartialsParsedOnce ==
    /\ tmpl.p \in 0..Len(tmpl.data)
    /\ tmpl.status # "overflow"


(***************************************************************************)
(* C29: a partial that includes itself in a section, rendered with a tree. *)
(***************************************************************************)

\* the file "node" of TestPartialsRecursion: the content of a node, then
\* the partial itself for every node of the list
NodeFile ==
    VarTag(x) \o <<"<">> \o OpenTag(l) \o PartialTag(p) \o CloseTag(l)
        \o <<">">>

\* a node of the tree: its content and the list of its nodes
Node(content, nodes) == Map((x :> String(content)) @@ (l :> Slice_(nodes)))

NodeContents == {<<"X">>, <<"Y">>}

\* no node, one node or two nodes out of `nodes'
UpToTwo(nodes) ==
    {<<>>} \cup {<<a>> : a \in nodes} \cup {<<a, b>> : a \in nodes, b \in nodes}

Leaves == {Node(content, <<>>) : content \in NodeContents}

Shrubs == {Node(content, nodes) : content \in NodeContents, nodes \in UpToTwo(Leaves)}

Trees == {Node(content, nodes) : content \in NodeContents, nodes \in UpToTwo(Shrubs)}

InitTree ==
    InitWithFiles({PartialTag(p)},
                  {<< <<tree>> >> : tree \in Trees},
                  {TRUE},
                  {p :> NodeFile})

SpecTree == InitTree /\ [][Next]_vars

\* one rendering of the partial per node, in document order
RECURSIVE Nested(_)
RECURSIVE NestedAll(_, _)
NestedAll(nodes, i) ==
    IF i > Len(nodes) THEN <<>>
    ELSE Nested(nodes[i]) \o NestedAll(nodes, i + 1)

Nested(node) ==
    node.m[x].s \o <<"<">> \o NestedAll(node.m[l].items, 1) \o <<">">>

\* C29: rendering a template whose partial includes itself inside a
\* section returns when the data is a finite tree each node of which
\* defines the section's name, and writes one rendering of the partial per
\* node of the tree, nested as the tree is, in document order.
RecursivePartialFollowsTree ==
    /\ tmpl.status # "overflow"
    /\ \A i \in 1..Len(results) :
           /\ results[i].status = "ok"
           /\ results[i].out = Nested(results[i].context[1])

\* the partial was rendered for a tree with nodes two lists deep, one of its
\* lists holding two nodes with different contents
RecursivePartialFollowsTreeWitness ==
    /\ Len(results) > 0
    /\ results[1].status = "ok"
    /\ \E i \in 1..Len(results[1].context[1].m[l].items) :
           LET node == results[1].context[1].m[l].items[i]
           IN  /\ Len(node.m[l].items) = 2
               /\ node.m[l].items[1] # node.m[l].items[2]


-----------------------------------------------------------------------------
(* The lexer of package parse.  lex starts a goroutine that runs the       *)
(* state functions; each emit and errorf sends an item on the channel      *)
(* l.items, which has no buffer: the send returns when nextItem has taken  *)
(* the item.  The goroutine alone reads and writes pos and start, so a     *)
(* call of a state function is modelled by what it leaves in the lexer     *)
(* and the items it sends, in `sends', the first of them being the one     *)
(* the goroutine is blocked on.  The input is of one-byte characters.      *)

itemError == 0
itemEOF == 1
itemText == 2
itemComment == 3
itemLeftDelim == 4
itemRightDelim == 5
itemVariable == 6

item(typ, pos, val) == [typ |-> typ, pos |-> pos, val |-> val]

HasPrefix(s, prefix) ==
    Len(prefix) <= Len(s) /\ SubSeq(s, 1, Len(prefix)) = prefix

\* the first position from pos on where the input goes on with delim, or
\* len(input) when there is none
RECURSIVE delimFrom(_, _, _)
delimFrom(input, pos, delim) ==
    IF pos >= Len(input) \/ HasPrefix(Slice(input, pos, Len(input)), delim)
    THEN pos
    ELSE delimFrom(input, pos + 1, delim)

emit(lx, typ) ==
    [lx EXCEPT !.sends = Append(@, item(typ, lx.start,
                                        Slice(lx.input, lx.start, lx.pos))),
               !.start = lx.pos]

ignore(lx) == [lx EXCEPT !.start = lx.pos]

emitAnyText(lx) == IF lx.pos > lx.start THEN emit(lx, itemText) ELSE lx

\* errorf that lets the scan go on
errorfAndGoOn(lx, message) ==
    [lx EXCEPT !.sends = Append(@, item(itemError, lx.start, message)),
               !.state = "lexText"]

errorf(lx, message) ==
    [lx EXCEPT !.sends = Append(@, item(itemError, lx.start, message)),
               !.state = "nil"]

\* a state function returns the next state
return(lx, state) == [lx EXCEPT !.state = state]

lexText(lx) ==
    IF HasPrefix(Slice(lx.input, delimFrom(lx.input, lx.pos, lx.leftDelim),
                       Len(lx.input)),
                 lx.leftDelim)
    THEN return(emitAnyText([lx EXCEPT !.pos =
                    delimFrom(lx.input, lx.pos, lx.leftDelim)]),
                "lexLeftDelim")
    ELSE return(emit(emitAnyText([lx EXCEPT !.pos = Len(lx.input)]),
                     itemEOF),
                "nil")

\* the input from pos on starts with the character c
startsWith(lx, c) == lx.pos < Len(lx.input) /\ At(lx.input, lx.pos) = c

lexLeftDelimAt(lx) ==
    CASE startsWith(lx, "!") -> return(lx, "lexComment")
      [] startsWith(lx, "#") -> return(lx, "lexSection")
      [] startsWith(lx, "^") -> return(lx, "lexPartial")
      [] startsWith(lx, "{") -> return(lx, "lexRawText")
      [] OTHER -> return(emit(lx, itemLeftDelim), "lexInsideDelim")

lexLeftDelim(lx) ==
    lexLeftDelimAt([lx EXCEPT !.pos = @ + Len(lx.leftDelim)])

lexInsideDelim(lx) ==
    IF HasPrefix(Slice(lx.input, delimFrom(lx.input, lx.pos, lx.rightDelim),
                       Len(lx.input)),
                 lx.rightDelim)
    THEN return(emit([lx EXCEPT !.pos =
                         delimFrom(lx.input, lx.pos, lx.rightDelim)],
                     itemVariable),
                "lexRightDelim")
    ELSE return(emit(emitAnyText([lx EXCEPT !.pos = Len(lx.input)]),
                     itemEOF),
                "nil")

\* lexComment after the comment marker
lexCommentAt(lx) ==
    IF ~HasPrefix(Slice(lx.input, delimFrom(lx.input, lx.pos, lx.rightDelim),
                        Len(lx.input)),
                  lx.rightDelim)
    THEN errorf(lx, "unclosed comment")
    ELSE return(ignore([emit([lx EXCEPT !.pos =
                                 delimFrom(lx.input, lx.pos, lx.rightDelim)],
                             itemComment)
                           EXCEPT !.pos = @ + Len(lx.rightDelim)]),
                "lexText")

lexComment(lx) == lexCommentAt(ignore([lx EXCEPT !.pos = @ + 1]))

lexRightDelim(lx) ==
    return(emit([lx EXCEPT !.pos = @ + Len(lx.rightDelim)], itemRightDelim),
           "lexText")

lexSection(lx) == errorf(lx, "Section support not implemented")

lexPartial(lx) == errorf(lx, "Partial support not implemented")

lexRawText(lx) == errorf(lx, "Raw support not implemented")

\* l.state(l)
stateFn(lx) ==
    CASE lx.state = "lexText" -> lexText(lx)
      [] lx.state = "lexLeftDelim" -> lexLeftDelim(lx)
      [] lx.state = "lexInsideDelim" -> lexInsideDelim(lx)
      [] lx.state = "lexComment" -> lexComment(lx)
      [] lx.state = "lexRightDelim" -> lexRightDelim(lx)
      [] lx.state = "lexSection" -> lexSection(lx)
      [] lx.state = "lexPartial" -> lexPartial(lx)
      [] lx.state = "lexRawText" -> lexRawText(lx)

\* lex: the lexer, its goroutine about to run lexText
lex(input, left, right) ==
    [input |-> input,
     leftDelim |-> IF left = <<>> THEN defaultOtag ELSE left,
     rightDelim |-> IF right = <<>> THEN defaultCtag ELSE right,
     state |-> "lexText", pos |-> 0, start |-> 0, lastPos |-> 0,
     sends |-> <<>>, pc |-> "run"]

\* the goroutine calls the state function, up to its return or to the
\* first item it sends
run ==
    /\ lexer.pc = "run"
    /\ lexer.state # "nil"
    /\ lexer' = [stateFn(lexer) EXCEPT
                    !.pc = IF stateFn(lexer).sends = <<>>
                           THEN "run" ELSE "send"]
    /\ UNCHANGED <<tmpl, calls, results, AllowMissingVariables, files,
                   channel, collected>>

\* what the receive gives: the item of the blocked send, or the zero item
\* once the channel is closed
received ==
    IF lexer.pc = "send" THEN Head(lexer.sends) ELSE item(itemError, 0, <<>>)

isLast(it) == it.typ = itemEOF \/ it.typ = itemError

\* the caller of collect has the final item
done == collected # <<>> /\ isLast(collected[Len(collected)])

\* collect calls nextItem: the receive, with the send it lets return
nextItem ==
    /\ ~done
    /\ lexer.pc = "send" \/ channel.closed
    /\ collected' = Append(collected, received)
    /\ lexer' = IF lexer.pc = "send"
                THEN [lexer EXCEPT !.lastPos = received.pos,
                                   !.sends = Tail(@),
                                   !.pc = IF Len(lexer.sends) > 1
                                          THEN "send" ELSE "run"]
                ELSE [lexer EXCEPT !.lastPos = received.pos]
    /\ UNCHANGED <<tmpl, calls, results, AllowMissingVariables, files, channel>>

\* the state is nil: run leaves its loop and closes the channel
close ==
    /\ lexer.pc = "run"
    /\ lexer.state = "nil"
    /\ channel' = [channel EXCEPT !.closed = TRUE]
    /\ lexer' = [lexer EXCEPT !.pc = "done"]
    /\ UNCHANGED <<tmpl, calls, results, AllowMissingVariables, files,
                   collected>>

NextLexer == run \/ nextItem \/ close

(***************************************************************************)
(* C30: the lexer's goroutine and the caller of nextItem.                  *)
(***************************************************************************)

MaxTokens == 4

LexTokens == {<<"a">>, <<"!">>, <<"#">>, defaultOtag, defaultCtag}

RECURSIVE LexInputs(_)
LexInputs(n) ==
    IF n = 0 THEN {<<>>}
    ELSE LexInputs(n - 1)
         \cup {input \o token : input \in LexInputs(n - 1), token \in LexTokens}

InitLexer ==
    /\ tmpl = Template(<<>>, defaultOtag, defaultCtag)
    /\ calls = <<>>
    /\ results = <<>>
    /\ AllowMissingVariables = FALSE
    /\ files = <<>>
    /\ lexer \in {lex(input, <<>>, <<>>) : input \in LexInputs(MaxTokens)}
    /\ channel = noItems
    /\ collected = <<>>

SpecLexer == InitLexer /\ [][NextLexer]_vars

\* a goroutine that can run does run
FairSpecLexer ==
    SpecLexer /\ WF_vars(run) /\ WF_vars(nextItem) /\ WF_vars(close)

\* all that the state functions send, one call after the other
RECURSIVE lexed(_)
lexed(lx) == IF lx.state = "nil" THEN lx.sends ELSE lexed(stateFn(lx))

emitted == lexed(lex(lexer.input, <<>>, <<>>))

\* the items got are the first ones sent, in their order, none of them
\* final but the last one of all, their positions not decreasing; the
\* channel is closed only after the final item was taken; and while the
\* final item is not taken or the channel not closed, a step can be made
LexerDelivers ==
    /\ Len(collected) <= Len(emitted)
    /\ collected = SubSeq(emitted, 1, Len(collected))
    /\ \A i \in 1..Len(collected) :
           /\ isLast(collected[i]) <=> i = Len(emitted)
           /\ i > 1 => collected[i - 1].pos <= collected[i].pos
    /\ channel.closed => done
    /\ (done /\ channel.closed) \/ ENABLED NextLexer

\* C30: for every input the lexer's goroutine and a caller of nextItem that
\* goes on until it gets an EOF or error item do not block for ever: the
\* items are finitely many and arrive in the order of their emission, with
\* positions that do not decrease, none lost and none twice, the last one
\* being the one EOF or error item, and then the channel is closed.
LexerAndConsumerFinish == []LexerDelivers /\ <>[](done /\ channel.closed)

\* the final item, an EOF, was taken after a variable between its
\* delimiters, and the channel is closed
LexerAndConsumerFinishWitness ==
    /\ done
    /\ channel.closed
    /\ Len(collected) >= 4
    /\ collected[Len(collected)].typ = itemEOF
    /\ \E i \in 1..Len(collected) :
           collected[i].typ = itemVariable /\ collected[i].val # <<>>

====
